---- MODULE Spec2Model ----
(***************************************************************************)
(* Model of the Gomoku search-and-evaluation core:                         *)
(*   src/gomoku4/simple_board.py  (SimpleGoBoard)                          *)
(*   src/gomoku4/alphabeta.py     (undo, game_end, alphabeta, solve)       *)
(*                                                                         *)
(* Scores are integers in half-point units (the heuristic adds 0.5 per     *)
(* empty cell), and INFINITY is a value above every heuristic score.       *)
(***************************************************************************)
EXTENDS Integers, Sequences, FiniteSets, TLC

\* ------------------------------------------------------------------ colours
EMPTY == "EMPTY"
BLACK == "BLACK"
WHITE == "WHITE"
BORDER == "BORDER"
None == "None"
NULLPOINT == 0

Colors == {BLACK, WHITE}

opponent(color) == IF color = BLACK THEN WHITE ELSE BLACK

is_black_white(color) == color \in Colors

\* ------------------------------------------------------------------ geometry
size == 7
NS == size + 1
maxpoint == size * size + 3 * (size + 1)

Points == 0 .. (maxpoint - 1)

\* None where a point is expected (best_move, prev_move, ko_recapture);
\* PASS is None
NonePoint == maxpoint
PASS == NonePoint

pt(row, col) == row * NS + col

row_start(row) == row * NS + 1

OnBoard == {pt(r, c) : r \in 1..size, c \in 1..size}

\* reset(): every cell BORDER, then the interior rows EMPTY
EmptyBoard == [p \in Points |-> IF p \in OnBoard THEN EMPTY ELSE BORDER]

where1d(b, v) == {p \in Points : b[p] = v}

get_empty_points(b) == where1d(b, EMPTY)

SetMin(S) == CHOOSE m \in S : \A k \in S : m <= k
SetMax(S) == CHOOSE m \in S : \A k \in S : m >= k

\* ------------------------------------------------------------------ Gomoku rules
\* Variant: only stones make a point illegal
is_legal_gomoku_no_border(b, point, color) == b[point] \notin Colors

is_legal_gomoku(b, point, color) == b[point] = EMPTY

\* Variant: the player to move is toggled instead of set from the colour
play_move_gomoku_toggle(b, cp, point, color) ==
    IF b[point] # EMPTY
    THEN [ok |-> FALSE, board |-> b, current_player |-> cp]
    ELSE [ok |-> TRUE,
          board |-> [b EXCEPT ![point] = color],
          current_player |-> opponent(cp)]

\* Variant: the occupancy test is missing
play_move_gomoku_overwrite(b, cp, point, color) ==
    [ok |-> TRUE,
     board |-> [b EXCEPT ![point] = color],
     current_player |-> opponent(color)]

\* Result of play_move_gomoku on (board, current_player): the returned
\* boolean and the fields after the call.
play_move_gomoku(b, cp, point, color) ==
    IF b[point] # EMPTY
    THEN [ok |-> FALSE, board |-> b, current_player |-> cp]
    ELSE [ok |-> TRUE,
          board |-> [b EXCEPT ![point] = color],
          current_player |-> opponent(color)]

\* Variant: the player to move is not flipped back
undo_no_flip(b, cp, move) ==
    [board |-> [b EXCEPT ![move] = EMPTY], current_player |-> cp]

\* Variant: the stone is left on the board
undo_keep_stone(b, cp, move) ==
    [board |-> b, current_player |-> opponent(cp)]

\* alphabeta.undo: clears the cell and flips current_player
undo(b, cp, move) ==
    [board |-> [b EXCEPT ![move] = EMPTY], current_player |-> opponent(cp)]

\* ------------------------------------------------------------------ terminal detection
AssertionError == "AssertionError"
True == "True"
False == "False"

\* One of the two counting loops of _point_direction_check_connect_gomoko:
\* walks from p in steps of d while the colour matches, and breaks as soon as
\* count becomes exactly 5.
RECURSIVE count_loop(_, _, _, _, _)
count_loop(b, color, p, d, count) ==
    IF b[p + d] = color
    THEN IF count + 1 = 5
         THEN count + 1
         ELSE count_loop(b, color, p + d, d, count + 1)
    ELSE count

connect_count(b, point, shift) ==
    count_loop(b, b[point], point, 0 - shift,
               count_loop(b, b[point], point, shift, 1))

_point_direction_check_connect_gomoko_four(b, point, shift) ==
    LET count == connect_count(b, point, shift)
    IN  IF ~(count <= 5) THEN AssertionError
        ELSE IF count >= 4 THEN True ELSE False

_point_direction_check_connect_gomoko(b, point, shift) ==
    LET count == connect_count(b, point, shift)
    IN  IF ~(count <= 5) THEN AssertionError
        ELSE IF count = 5 THEN True ELSE False

Shifts == <<1, NS, NS + 1, NS - 1>>

RECURSIVE point_check_from(_, _, _)
point_check_from(b, point, i) ==
    IF i > Len(Shifts) THEN False
    ELSE LET r == _point_direction_check_connect_gomoko(b, point, Shifts[i])
         IN  IF r = False THEN point_check_from(b, point, i + 1) ELSE r

point_check_game_end_gomoku(b, point) == point_check_from(b, point, 1)

\* The loop "for point in points: if point_check...: return" over the points
\* of one colour in ascending index order: the outcome of the first point
\* whose check is not False.
scan_points(b, pts) ==
    LET hits == {p \in pts : point_check_game_end_gomoku(b, p) # False}
    IN  IF hits = {} THEN False
        ELSE point_check_game_end_gomoku(b, SetMin(hits))

check_game_end_gomoku(b) ==
    LET w == scan_points(b, where1d(b, WHITE))
    IN  IF w = AssertionError THEN [raised |-> TRUE, ended |-> FALSE, winner |-> None]
        ELSE IF w = True THEN [raised |-> FALSE, ended |-> TRUE, winner |-> WHITE]
        ELSE LET k == scan_points(b, where1d(b, BLACK))
             IN  IF k = AssertionError
                 THEN [raised |-> TRUE, ended |-> FALSE, winner |-> None]
                 ELSE IF k = True
                 THEN [raised |-> FALSE, ended |-> TRUE, winner |-> BLACK]
                 ELSE [raised |-> FALSE, ended |-> FALSE, winner |-> None]

\* ------------------------------------------------------------------ pattern detector
\* Tier tables of list_solve_point (1: win, 2: block win, 3: make four,
\* 4: block open four); each signature maps to distances back from the scan
\* position.
patternList ==
    << ("xxxx." :> {0}) @@ ("xxx.x" :> {1}) @@ ("xx.xx" :> {2}) @@
       ("x.xxx" :> {3}) @@ (".xxxx" :> {4}),
       ("oooo." :> {0}) @@ ("ooo.o" :> {1}) @@ ("oo.oo" :> {2}) @@
       ("o.ooo" :> {3}) @@ (".oooo" :> {4}),
       (".xxx.." :> {1}) @@ ("..xxx." :> {4}) @@ (".xx.x." :> {2}) @@
       (".x.xx." :> {3}),
       (".ooo.." :> {1, 5}) @@ ("..ooo." :> {0, 4}) @@ (".oo.o." :> {2}) @@
       (".o.oo." :> {3}) >>

direction_x == <<1, 0, 1, -1>>
direction_y == <<0, 1, 1, 1>>

NoMoves == <<{}, {}, {}, {}>>

\* Variant: a Border cell reads as an empty one
piece_of_open_border(b, point, color) ==
    IF b[point] = EMPTY \/ b[point] = BORDER THEN "."
    ELSE IF b[point] = color THEN "x"
    ELSE "o"

\* The character check_pattern appends for the cell at point
piece_of(b, point, color) ==
    IF b[point] = EMPTY THEN "."
    ELSE IF b[point] = color THEN "x"
    ELSE IF b[point] = BORDER THEN "B"
    ELSE "o"

RECURSIVE check_pattern(_, _, _, _, _, _, _, _)
check_pattern_short_step(b, point, have, dx, dy, moveSet, pl, color) ==
    LET tiers == {i \in 1..4 : have \in DOMAIN pl[i]}
        ms == IF tiers = {} THEN moveSet
              ELSE LET i == SetMin(tiers)
                   IN  [moveSet EXCEPT ![i] = @ \cup
                          {point - dx * dis - dy * NS * dis :
                               dis \in pl[i][have]}]
    IN  IF ~(0 <= point /\ point < maxpoint) \/ Len(have) = 9
        THEN ms
        ELSE check_pattern(b, point + dx + dy * NS,
                           have \o piece_of(b, point, color),
                           dx, dy, ms, pl, color)

\* check_pattern: test the signature read so far against the tiers (first
\* tier that knows it), then read the cell at point and recurse one step on.
check_pattern(b, point, have, dx, dy, moveSet, pl, color) ==
    LET tiers == {i \in 1..4 : have \in DOMAIN pl[i]}
        ms == IF tiers = {} THEN moveSet
              ELSE LET i == SetMin(tiers)
                   IN  [moveSet EXCEPT ![i] = @ \cup
                          {point - dx * (dis + 1) - dy * NS * (dis + 1) :
                               dis \in pl[i][have]}]
    IN  IF ~(0 <= point /\ point < maxpoint) \/ Len(have) = 9
        THEN ms
        ELSE check_pattern(b, point + dx + dy * NS,
                           have \o piece_of(b, point, color),
                           dx, dy, ms, pl, color)

\* The double loop of list_solve_point; moveSet only ever grows, so the
\* sets are the union of what each (point, direction) scan adds.
scan_moveSet(b, color) ==
    LET scans == {check_pattern(b, p, "", direction_x[dir], direction_y[dir],
                                NoMoves, patternList, color) :
                      p \in {q \in Points : b[q] # BORDER}, dir \in 1..4}
    IN  [i \in 1..4 |-> UNION {ms[i] : ms \in scans}]

list_solve_point_block_first(b, cp) ==
    LET moveSet == scan_moveSet(b, cp)
    IN  IF moveSet[2] # {} THEN [tier |-> 2, moves |-> moveSet[2]]
        ELSE IF moveSet[1] # {} THEN [tier |-> 1, moves |-> moveSet[1]]
        ELSE IF moveSet[3] # {} THEN [tier |-> 3, moves |-> moveSet[3]]
        ELSE IF moveSet[4] # {} THEN [tier |-> 4, moves |-> moveSet[4]]
        ELSE [tier |-> 0, moves |-> {}]

list_solve_point_all_tiers(b, cp) ==
    LET moveSet == scan_moveSet(b, cp)
        nonEmpty == {i \in 1..4 : moveSet[i] # {}}
    IN  IF nonEmpty = {} THEN [tier |-> 0, moves |-> {}]
        ELSE [tier |-> SetMin(nonEmpty),
              moves |-> UNION {moveSet[i] : i \in 1..4}]

\* list_solve_point: the moves of the first non-empty tier, or None.
\* Returned as [tier, moves] with tier = 0 for None.
list_solve_point(b, cp) ==
    LET moveSet == scan_moveSet(b, cp)
        nonEmpty == {i \in 1..4 : moveSet[i] # {}}
    IN  IF nonEmpty = {} THEN [tier |-> 0, moves |-> {}]
        ELSE [tier |-> SetMin(nonEmpty), moves |-> moveSet[SetMin(nonEmpty)]]

\* Tier tables of get_pattern_moves: the fourth tier knows more blocks
patternList_moves ==
    << patternList[1], patternList[2], patternList[3],
       (".ooo.." :> {1, 5}) @@ ("..ooo." :> {0, 4}) @@
       (".oo.o." :> {0, 2, 5}) @@ (".o.oo." :> {0, 3, 5}) @@
       ("B.ooo.." :> {0}) @@ ("..ooo.B" :> {6}) @@
       ("x.ooo.." :> {0}) @@ ("..ooo.x" :> {6}) >>

\* get_pattern_moves: scans from every point of the array, border cells
\* included, and returns the tier index (0-based) with its moves, or None
\* (tier = -1).
get_pattern_moves(b, cp) ==
    LET scans == {check_pattern(b, p, "", direction_x[dir], direction_y[dir],
                                NoMoves, patternList_moves, cp) :
                      p \in Points, dir \in 1..4}
        moveSet == [i \in 1..4 |-> UNION {ms[i] : ms \in scans}]
        nonEmpty == {i \in 1..4 : moveSet[i] # {}}
    IN  IF nonEmpty = {} THEN [tier |-> 0 - 1, moves |-> {}]
        ELSE [tier |-> SetMin(nonEmpty) - 1,
              moves |-> moveSet[SetMin(nonEmpty)]]


\* ------------------------------------------------------------------ winDetection
\* 1 move wins: TRUE for the current player's, FALSE for the opponent's
winDict ==
    ("x.xxx" :> TRUE) @@ ("xx.xx" :> TRUE) @@ ("xxx.x" :> TRUE) @@
    (".xxxx" :> TRUE) @@ ("xxxx." :> TRUE) @@
    ("o.ooo" :> FALSE) @@ ("oo.oo" :> FALSE) @@ ("ooo.o" :> FALSE) @@
    (".oooo" :> FALSE) @@ ("oooo." :> FALSE)

\* 2 move wins: (MyWin, how many steps back to go)
threatDict ==
    (".x.xx." :> <<TRUE, 3>>) @@ (".xx.x." :> <<TRUE, 2>>) @@
    (".xxx.." :> <<TRUE, 1>>) @@ ("..xxx." :> <<TRUE, 4>>) @@
    (".o.oo." :> <<FALSE, 3>>) @@ (".oo.o." :> <<FALSE, 2>>) @@
    (".ooo.." :> <<FALSE, 1>>) @@ ("..ooo." :> <<FALSE, 4>>)

getPointRep(b, cp, point) ==
    IF b[point] = cp THEN "x"
    ELSE IF b[point] = EMPTY THEN "."
    ELSE IF b[point] = BORDER THEN "#"
    ELSE "o"

\* s.index("."): position of the first "." (0-based)
RECURSIVE index_of_dot(_)
index_of_dot(s) == IF Head(s) = "." THEN 0 ELSE 1 + index_of_dot(Tail(s))

\* The four result lists of winDetection plus "returned early"
NoWins == [myWins |-> <<>>, theirWins |-> <<>>, my2mWins |-> <<>>,
           their2mWins |-> <<>>, done |-> FALSE]

checkThreat(d, s, acc, p, step) ==
    IF s \in DOMAIN d
    THEN IF d[s][1]
         THEN [acc EXCEPT !.my2mWins = Append(@, p - d[s][2] * step)]
         ELSE [acc EXCEPT !.their2mWins = Append(@, p - d[s][2] * step)]
    ELSE acc

checkWin_keep_lists(d, s, acc, p, step) ==
    IF s \in DOMAIN d
    THEN LET q == p + (index_of_dot(s) - 4) * step
         IN  IF d[s]
             THEN [acc EXCEPT !.myWins = Append(@, q), !.done = TRUE]
             ELSE [acc EXCEPT !.theirWins = Append(@, q)]
    ELSE acc

\* checkWin; a TRUE return makes winDetection return (myWins, [], [], [])
checkWin(d, s, acc, p, step) ==
    IF s \in DOMAIN d
    THEN LET q == p + (index_of_dot(s) - 4) * step
         IN  IF d[s]
             THEN [myWins |-> Append(acc.myWins, q), theirWins |-> <<>>,
                   my2mWins |-> <<>>, their2mWins |-> <<>>, done |-> TRUE]
             ELSE [acc EXCEPT !.theirWins = Append(@, q)]
    ELSE acc

\* range(a, b, st) for st > 0
range(a, b, st) ==
    IF b <= a THEN <<>>
    ELSE [k \in 1 .. ((b - a + st - 1) \div st) |-> a + (k - 1) * st]

startPoint == size + 2

\* Each scanned line: its first point, its length and the step between cells
horizontal_lines ==
    LET starts == range(startPoint, startPoint + size * size + 1, size + 1)
    IN  [k \in 1..Len(starts) |->
            [start |-> starts[k], len |-> size, step |-> 1]]

vertical_lines ==
    LET starts == range(startPoint, startPoint + size, 1)
    IN  [k \in 1..Len(starts) |->
            [start |-> starts[k],
             len |-> Len(range(starts[k],
                               starts[k] + (size + 1) * (size - 1) + 1,
                               size + 1)),
             step |-> size + 1]]

exists == IF size - 5 > 0 THEN size - 5 ELSE 0

\* dIStarts = [startPoint, checkDown, checkRight, checkDown', checkRight', ..]
\* and dSize shrinks by one after every other start
dIStarts ==
    [j \in 1 .. (1 + 2 * exists) |->
        IF j = 1 THEN startPoint
        ELSE IF j % 2 = 0
             THEN startPoint + size + 1 + ((j \div 2) - 1) * (size + 1)
             ELSE startPoint + 1 + (((j - 1) \div 2) - 1)]

dIIStarts ==
    [j \in 1 .. (1 + 2 * exists) |->
        IF j = 1 THEN startPoint + size - 1
        ELSE IF j % 2 = 0
             THEN startPoint + (size - 1) - 1 - ((j \div 2) - 1)
             ELSE startPoint + (size - 1) + (size + 1)
                      + (((j - 1) \div 2) - 1) * (size + 1)]

dSize(j) == size - (j \div 2)

diagI_lines ==
    [j \in 1..Len(dIStarts) |->
        [start |-> dIStarts[j], len |-> dSize(j), step |-> size + 2]]

diagII_lines ==
    [j \in 1..Len(dIIStarts) |->
        [start |-> dIIStarts[j], len |-> dSize(j), step |-> size]]

scan_order == horizontal_lines \o vertical_lines \o diagI_lines \o diagII_lines

\* The inner loop over the cells of one line, from its k-th cell on
RECURSIVE scan_line(_, _, _, _, _, _)
scan_line(b, cp, line, k, winStr, acc) ==
    IF acc.done \/ k > line.len THEN acc
    ELSE LET point == line.start + (k - 1) * line.step
             s6 == winStr \o getPointRep(b, cp, point)
             acc1 == IF Len(s6) = 6
                     THEN checkThreat(threatDict, s6, acc, point, line.step)
                     ELSE acc
             s5 == IF Len(s6) = 6 THEN Tail(s6) ELSE s6
             acc2 == IF Len(s5) = 5
                     THEN checkWin(winDict, s5, acc1, point, line.step)
                     ELSE acc1
         IN  scan_line(b, cp, line, k + 1, s5, acc2)

RECURSIVE scan_lines(_, _, _, _)
scan_lines(b, cp, i, acc) ==
    IF acc.done \/ i > Len(scan_order) THEN acc
    ELSE scan_lines(b, cp, i + 1, scan_line(b, cp, scan_order[i], 1, "", acc))

winDetection(b, cp) == scan_lines(b, cp, 1, NoWins)

\* ------------------------------------------------------------------ heuristic
\* One side of _point_direction_check_connect_gomoko_heur, in half points:
\* "x" = +1, "." = +0.5, the terminating "?" = -1
RECURSIVE heur_side(_, _, _, _)
heur_side(b, color, p, d) ==
    IF b[p + d] = color THEN 2 + heur_side(b, color, p + d, d)
    ELSE IF b[p + d] = EMPTY THEN 1 + heur_side(b, color, p + d, d)
    ELSE 0 - 2

_point_direction_check_connect_gomoko_heur(b, point, shift) ==
    heur_side(b, b[point], point, shift) + heur_side(b, b[point], point, 0 - shift)

\* The sum over the four directions that the return expression spells out
point_check_game_end_gomoku_heur(b, point) ==
    _point_direction_check_connect_gomoko_heur(b, point, 1)
    + _point_direction_check_connect_gomoko_heur(b, point, NS)
    + _point_direction_check_connect_gomoko_heur(b, point, NS + 1)
    + _point_direction_check_connect_gomoko_heur(b, point, NS - 1)

RECURSIVE heur_sum(_, _)
heur_sum(b, pts) ==
    IF pts = {} THEN 0
    ELSE LET p == SetMin(pts)
         IN  point_check_game_end_gomoku_heur(b, p) + heur_sum(b, pts \ {p})

get_heuristic_score(b, cp) ==
    heur_sum(b, where1d(b, cp)) - heur_sum(b, where1d(b, opponent(cp)))


\* ------------------------------------------------------------------ alphabeta.py
START_DEPTH == 2
INFINITY == 1000000


\* GoBoardUtil.generate_legal_moves_gomoku: the empty points in index order
RECURSIVE sorted_list(_)
sorted_list(S) ==
    IF S = {} THEN <<>> ELSE <<SetMin(S)>> \o sorted_list(S \ {SetMin(S)})

generate_legal_moves_gomoku(b) == sorted_list(get_empty_points(b))

game_end_full_first(b, cp) ==
    LET ge == check_game_end_gomoku(b)
        moves == get_empty_points(b)
        board_full == (Cardinality(moves) = 0)
    IN  IF ge.raised THEN [raised |-> TRUE, terminal |-> FALSE, val |-> 0]
        ELSE IF board_full
        THEN [raised |-> FALSE, terminal |-> TRUE, val |-> 0]
        ELSE IF ge.ended
        THEN [raised |-> FALSE, terminal |-> TRUE,
              val |-> IF ge.winner = cp THEN INFINITY ELSE 0 - INFINITY]
        ELSE [raised |-> FALSE, terminal |-> FALSE, val |-> 0]

\* game_end: terminal = FALSE stands for the None return
game_end(b, cp) ==
    LET ge == check_game_end_gomoku(b)
        moves == get_empty_points(b)
        board_full == (Cardinality(moves) = 0)
    IN  IF ge.raised THEN [raised |-> TRUE, terminal |-> FALSE, val |-> 0]
        ELSE IF ge.ended
        THEN [raised |-> FALSE, terminal |-> TRUE,
              val |-> IF ge.winner = cp THEN INFINITY ELSE 0 - INFINITY]
        ELSE IF board_full
        THEN [raised |-> FALSE, terminal |-> TRUE, val |-> 0]
        ELSE [raised |-> FALSE, terminal |-> FALSE, val |-> 0]

\* An outcome of a search call: the returned value (or a raised exception)
\* and the board fields the call leaves behind.
Ret(v, b, cp) == [raised |-> FALSE, v |-> v, board |-> b, current_player |-> cp]
Raise(b, cp) == [raised |-> TRUE, v |-> 0, board |-> b, current_player |-> cp]

\* solvePoint[0]: list(set) fixes no order, so any member can come first
first_candidates(solvePoint) == solvePoint.moves

RECURSIVE alphabeta(_, _, _, _, _)
RECURSIVE alphabeta_forced(_, _, _, _, _, _)
RECURSIVE alphabeta_loop(_, _, _, _, _, _, _)

\* The set of outcomes alphabeta(board, alpha, beta, d) can have
alphabeta(b, cp, alpha, beta, d) ==
    LET result == game_end(b, cp)
    IN  IF result.raised THEN {Raise(b, cp)}
        ELSE IF result.terminal THEN {Ret(result.val, b, cp)}
        ELSE LET solvePoint == list_solve_point(b, cp)
             IN  IF solvePoint.tier # 0
                 THEN UNION {alphabeta_forced(b, cp, alpha, beta, d, m) :
                                 m \in first_candidates(solvePoint)}
                 ELSE IF d <= 0
                 THEN {Ret(get_heuristic_score(b, cp), b, cp)}
                 ELSE alphabeta_loop(b, cp, alpha, beta, d,
                                     generate_legal_moves_gomoku(b), 1)

\* lines 30-36: play solvePoint[0], recurse, undo, cut off or fall to return alpha
alphabeta_forced(b, cp, alpha, beta, d, m) ==
    LET pl == play_move_gomoku(b, cp, m, cp)
    IN  UNION {
          IF r.raised THEN {r}
          ELSE LET result == 0 - r.v
                   alpha1 == IF result > alpha THEN result ELSE alpha
                   u == undo(r.board, r.current_player, m)
               IN  IF result >= beta
                   THEN {Ret(beta, u.board, u.current_player)}
                   ELSE {Ret(alpha1, u.board, u.current_player)} :
          r \in alphabeta(pl.board, pl.current_player, 0 - beta, 0 - alpha, d - 1)}

alphabeta_loop_cutoff_first(b, cp, alpha, beta, d, moves, i) ==
    IF i > Len(moves) THEN {Ret(alpha, b, cp)}
    ELSE LET m == moves[i]
             pl == play_move_gomoku(b, cp, m, cp)
         IN  UNION {
               IF r.raised THEN {r}
               ELSE LET result == 0 - r.v
                        alpha1 == IF result > alpha THEN result ELSE alpha
                        u == undo(r.board, r.current_player, m)
                    IN  IF result >= beta
                        THEN {Ret(beta, r.board, r.current_player)}
                        ELSE alphabeta_loop(u.board, u.current_player, alpha1,
                                            beta, d, moves, i + 1) :
               r \in alphabeta(pl.board, pl.current_player,
                               0 - beta, 0 - alpha, d - 1)}

\* Variant: the window is handed down as it is
alphabeta_loop_same_window(b, cp, alpha, beta, d, moves, i) ==
    IF i > Len(moves) THEN {Ret(alpha, b, cp)}
    ELSE LET m == moves[i]
             pl == play_move_gomoku(b, cp, m, cp)
         IN  UNION {
               IF r.raised THEN {r}
               ELSE LET result == 0 - r.v
                        alpha1 == IF result > alpha THEN result ELSE alpha
                        u == undo(r.board, r.current_player, m)
                    IN  IF result >= beta
                        THEN {Ret(beta, u.board, u.current_player)}
                        ELSE alphabeta_loop(u.board, u.current_player, alpha1,
                                            beta, d, moves, i + 1) :
               r \in alphabeta(pl.board, pl.current_player,
                               alpha, beta, d - 1)}

\* lines 41-49: the loop over the legal moves, from the i-th on
alphabeta_loop(b, cp, alpha, beta, d, moves, i) ==
    IF i > Len(moves) THEN {Ret(alpha, b, cp)}
    ELSE LET m == moves[i]
             pl == play_move_gomoku(b, cp, m, cp)
         IN  UNION {
               IF r.raised THEN {r}
               ELSE LET result == 0 - r.v
                        alpha1 == IF result > alpha THEN result ELSE alpha
                        u == undo(r.board, r.current_player, m)
                    IN  IF result >= beta
                        THEN {Ret(beta, u.board, u.current_player)}
                        ELSE alphabeta_loop(u.board, u.current_player, alpha1,
                                            beta, d, moves, i + 1) :
               r \in alphabeta(pl.board, pl.current_player,
                               0 - beta, 0 - alpha, d - 1)}

\* An outcome of solve: the returned pair (tag "First": (value, "First");
\* "Move": (True, point); "NoMove": (flag, "NoMove")) and the fields it leaves.
SolveRet(tag, value, flag, point, b, cp, bm, bms) ==
    [raised |-> FALSE, tag |-> tag, value |-> value, flag |-> flag,
     point |-> point, board |-> b, current_player |-> cp,
     best_move |-> bm, best_move_score |-> bms]

SolveRaise(b, cp, bm, bms) ==
    [raised |-> TRUE, tag |-> "Raise", value |-> 0, flag |-> FALSE,
     point |-> NonePoint, board |-> b, current_player |-> cp,
     best_move |-> bm, best_move_score |-> bms]

RECURSIVE solve_loop(_, _, _, _, _, _, _)
\* lines 74-87: the loop over the legal moves, from the i-th on
solve_loop(b, cp, bm, bms, haveDraw, moves, i) ==
    IF i > Len(moves)
    THEN {SolveRet("NoMove", 0, haveDraw, NonePoint, b, cp, bm, bms)}
    ELSE LET m == moves[i]
             pl == play_move_gomoku(b, cp, m, cp)
         IN  UNION {
               IF r.raised
               THEN {SolveRaise(r.board, r.current_player, bm, bms)}
               ELSE LET result == 0 - r.v
                        u == undo(r.board, r.current_player, m)
                    IN  IF result = INFINITY
                        THEN {SolveRet("Move", 0, TRUE, m, u.board,
                                       u.current_player, bm, bms)}
                        ELSE IF result > bms
                        THEN solve_loop(u.board, u.current_player, m, result,
                                        haveDraw, moves, i + 1)
                        ELSE solve_loop(u.board, u.current_player, bm, bms,
                                        haveDraw, moves, i + 1) :
               r \in alphabeta(pl.board, pl.current_player,
                               0 - INFINITY, INFINITY, START_DEPTH)}

\* lines 64-72: the critical-point branch for one choice of solvePoint[0]
solve_forced(b, cp, bm, bms, m) ==
    LET pl == play_move_gomoku(b, cp, m, cp)
    IN  UNION {
          IF r.raised THEN {SolveRaise(r.board, r.current_player, bm, bms)}
          ELSE LET result == 0 - r.v
                   u == undo(r.board, r.current_player, m)
               IN  IF result = INFINITY
                   THEN {SolveRet("Move", 0, TRUE, m, u.board,
                                  u.current_player, bm, bms)}
                   ELSE {SolveRet("NoMove", 0, result = 0, NonePoint, u.board,
                                  u.current_player, bm, bms)} :
          r \in alphabeta(pl.board, pl.current_player,
                          0 - INFINITY, INFINITY, START_DEPTH)}

\* The set of outcomes solve(board, sboard) can have, sboard being the board
\* itself; bm and bms are its best_move and best_move_score at the call.
solve(b, cp, bm, bms) ==
    LET result == game_end(b, cp)
    IN  IF result.raised THEN {SolveRaise(b, cp, bm, bms)}
        ELSE IF result.terminal
        THEN {SolveRet("First", result.val, FALSE, NonePoint, b, cp, bm, bms)}
        ELSE LET solvePoint == list_solve_point(b, cp)
             IN  IF solvePoint.tier # 0
                 THEN UNION {solve_forced(b, cp, NonePoint, 0 - INFINITY, m) :
                                 m \in first_candidates(solvePoint)}
                 ELSE solve_loop(b, cp, NonePoint, 0 - INFINITY, FALSE,
                                 generate_legal_moves_gomoku(b), 1)


\* ------------------------------------------------------------------ negaAB
WINNER_SCORE == 100000

\* An outcome of negaAB: the returned (score, move) pair, or a raised
\* exception, and the fields the call leaves behind.
NegaRet(v, move, b, cp, bm, bms) ==
    [raised |-> FALSE, v |-> v, move |-> move, board |-> b,
     current_player |-> cp, best_move |-> bm, best_move_score |-> bms]

NegaRaise(b, cp, bm, bms) ==
    [raised |-> TRUE, v |-> 0, move |-> NonePoint, board |-> b,
     current_player |-> cp, best_move |-> bm, best_move_score |-> bms]

RECURSIVE negaAB(_, _, _, _, _, _, _, _)
RECURSIVE negaAB_block(_, _, _, _, _, _, _, _)
RECURSIVE negaAB_loop(_, _, _, _, _, _, _, _, _)

negaAB(b, cp, alpha, beta, d, prev_move, bm, bms) ==
    LET empty_points == sorted_list(get_empty_points(b))
    IN  IF d = 0
        THEN LET score == get_heuristic_score(b, cp)
             IN  IF score > bms
                 THEN IF score = 2 * WINNER_SCORE
                      THEN NegaRet(1, prev_move, b, cp, prev_move, score)
                      ELSE IF score = 0 - 2 * WINNER_SCORE
                      THEN NegaRet(0 - 1, prev_move, b, cp, prev_move, score)
                      ELSE NegaRet(0, NonePoint, b, cp, prev_move, score)
                 ELSE NegaRet(0, NonePoint, b, cp, bm, bms)
        ELSE IF Len(empty_points) = 0 THEN NegaRet(0, NonePoint, b, cp, bm, bms)
        ELSE LET w == winDetection(b, cp)
             IN  IF Len(w.myWins) > 0
                 THEN NegaRet(1, w.myWins[1], b, cp, bm, bms)
                 ELSE IF Len(w.theirWins) > 1
                 THEN NegaRet(0 - 1, w.theirWins[1], b, cp, bm, bms)
                 ELSE IF Len(w.theirWins) = 1
                 THEN IF Len(w.their2mWins) > 0
                      THEN NegaRet(0 - 1, w.theirWins[1], b, cp, bm, bms)
                      ELSE negaAB_block(b, cp, alpha, beta, d, w.theirWins[1],
                                        bm, bms)
                 ELSE IF Len(w.my2mWins) > 0
                 THEN NegaRet(1, w.my2mWins[1], b, cp, bm, bms)
                 ELSE IF Len(w.their2mWins) > 1
                 THEN NegaRet(0 - 1, w.their2mWins[1], b, cp, bm, bms)
                 ELSE IF Len(w.their2mWins) = 1
                 THEN negaAB_block(b, cp, alpha, beta, d, w.their2mWins[1],
                                   bm, bms)
                 ELSE negaAB_loop(b, cp, alpha, beta, d, empty_points,
                                  empty_points[1], bm, bms)

negaAB_block_no_flip_back(b, cp, alpha, beta, d, point, bm, bms) ==
    LET result == negaAB([b EXCEPT ![point] = cp], opponent(cp),
                         0 - beta, 0 - alpha, d - 1, point, bm, bms)
    IN  IF result.raised THEN result
        ELSE NegaRet(0 - result.v, point,
                     [result.board EXCEPT ![point] = EMPTY],
                     result.current_player,
                     result.best_move, result.best_move_score)

\* The "must block this point" branches (lines 800-807 and 814-821)
negaAB_block(b, cp, alpha, beta, d, point, bm, bms) ==
    LET result == negaAB([b EXCEPT ![point] = cp], opponent(cp),
                         0 - beta, 0 - alpha, d - 1, point, bm, bms)
    IN  IF result.raised THEN result
        ELSE NegaRet(0 - result.v, point,
                     [result.board EXCEPT ![point] = EMPTY],
                     opponent(result.current_player),
                     result.best_move, result.best_move_score)

\* The while loop (lines 823-849) over the remaining empty_points, taken
\* from the end; point is the loop variable's current value.
negaAB_loop(b, cp, alpha, beta, d, empty_points, point, bm, bms) ==
    IF Len(empty_points) = 0 THEN NegaRet(alpha, point, b, cp, bm, bms)
    ELSE LET pnt == empty_points[Len(empty_points)]
             rest == SubSeq(empty_points, 1, Len(empty_points) - 1)
             b1 == [b EXCEPT ![pnt] = cp]
             ended == point_check_game_end_gomoku(b1, pnt)
         IN  IF ended = AssertionError THEN NegaRaise(b1, cp, bm, bms)
             ELSE IF ended = True
             THEN NegaRet(1, pnt, [b1 EXCEPT ![pnt] = EMPTY], cp, bm, bms)
             ELSE LET result == negaAB(b1, opponent(cp), 0 - beta, 0 - alpha,
                                       d - 1, pnt, bm, bms)
                      v == 0 - result.v
                      alpha1 == IF v > alpha THEN v ELSE alpha
                      cp2 == opponent(result.current_player)
                      b2 == [result.board EXCEPT ![pnt] = EMPTY]
                  IN  IF result.raised THEN result
                      ELSE IF v >= beta
                      THEN NegaRet(beta, pnt, b2, cp2, result.best_move,
                                   result.best_move_score)
                      ELSE negaAB_loop(b2, cp2, alpha1, beta, d, rest, pnt,
                                       result.best_move, result.best_move_score)


\* ------------------------------------------------------------------ Go rules
\* _neighbors and the precomputed on-board neighbour lists
_neighbors(point) == <<point - 1, point + 1, point - NS, point + NS>>

IsOnBoard(p) == p \in OnBoard

neighbors(point) ==
    IF point \in OnBoard THEN SelectSeq(_neighbors(point), IsOnBoard) ELSE <<>>

SeqRange(sq) == {sq[i] : i \in 1..Len(sq)}

neighbors_of_color(b, point, color) ==
    {nb \in SeqRange(neighbors(point)) : b[nb] = color}

\* find_neighbor_of_color: the first neighbour of that colour, or NonePoint
find_neighbor_of_color(b, point, color) ==
    LET nbs == neighbors(point)
        hit == {i \in 1..Len(nbs) : b[nbs[i]] = color}
    IN  IF hit = {} THEN NonePoint ELSE nbs[SetMin(hit)]

_is_surrounded(b, point, color) ==
    \A nb \in SeqRange(neighbors(point)) : b[nb] = color

_stone_has_liberty(b, stone) == find_neighbor_of_color(b, stone, EMPTY) # NonePoint

\* _block_of: flood fill over same-coloured neighbours
RECURSIVE grow_block(_, _, _)
grow_block(b, color, marked) ==
    LET more == UNION {neighbors_of_color(b, p, color) : p \in marked} \ marked
    IN  IF more = {} THEN marked ELSE grow_block(b, color, marked \cup more)

_block_of(b, stone) == grow_block(b, b[stone], {stone})

\* _get_liberty: the first liberty met walking the block in index order
_get_liberty(b, block) ==
    LET withLib == {stone \in block : _stone_has_liberty(b, stone)}
    IN  IF withLib = {} THEN NonePoint
        ELSE find_neighbor_of_color(b, SetMin(withLib), EMPTY)

\* _has_liberty: the answer and the liberty_of array it leaves
_has_liberty(b, liberty_of, block) ==
    LET lib == _get_liberty(b, block)
    IN  IF lib # NonePoint
        THEN [has |-> TRUE,
              liberty_of |-> [p \in Points |->
                                 IF p \in block THEN lib ELSE liberty_of[p]]]
        ELSE [has |-> FALSE, liberty_of |-> liberty_of]

_fast_liberty_check(b, liberty_of, nb_point) ==
    LET lib == liberty_of[nb_point]
    IN  IF lib # NULLPOINT /\ b[lib] = EMPTY THEN TRUE
        ELSE _stone_has_liberty(b, nb_point)

\* _detect_capture: the answer and the liberty_of array it leaves
_detect_capture(b, liberty_of, nb_point) ==
    IF _fast_liberty_check(b, liberty_of, nb_point)
    THEN [captured |-> FALSE, liberty_of |-> liberty_of]
    ELSE LET h == _has_liberty(b, liberty_of, _block_of(b, nb_point))
         IN  [captured |-> ~h.has, liberty_of |-> h.liberty_of]

\* _detect_captures: stops at the first captured neighbour block
RECURSIVE _detect_captures_from(_, _, _, _)
_detect_captures_from(b, liberty_of, nbs, i) ==
    IF i > Len(nbs) THEN [captured |-> FALSE, liberty_of |-> liberty_of]
    ELSE LET c == _detect_capture(b, liberty_of, nbs[i])
         IN  IF c.captured THEN c
             ELSE _detect_captures_from(b, c.liberty_of, nbs, i + 1)

_detect_captures(b, liberty_of, point, opp_color) ==
    LET nbs == neighbors(point)
        opp == SelectSeq(nbs, LAMBDA nb : b[nb] = opp_color)
    IN  _detect_captures_from(b, liberty_of, opp, 1)

\* Variant: the ko point is not tested
is_legal_no_ko(b, liberty_of, ko_recapture, point, color) ==
    IF point = PASS THEN [legal |-> TRUE, liberty_of |-> liberty_of]
    ELSE IF b[point] # EMPTY THEN [legal |-> FALSE, liberty_of |-> liberty_of]
    ELSE LET b1 == [b EXCEPT ![point] = color]
             cap == _detect_captures(b1, liberty_of, point, opponent(color))
         IN  IF ~cap.captured /\ ~_stone_has_liberty(b1, point)
             THEN LET h == _has_liberty(b1, cap.liberty_of, _block_of(b1, point))
                  IN  [legal |-> h.has, liberty_of |-> h.liberty_of]
             ELSE [legal |-> TRUE, liberty_of |-> cap.liberty_of]

\* is_legal: the answer and the liberty_of array it leaves (the trial stone
\* is taken off again)
is_legal(b, liberty_of, ko_recapture, point, color) ==
    IF point = PASS THEN [legal |-> TRUE, liberty_of |-> liberty_of]
    ELSE IF b[point] # EMPTY THEN [legal |-> FALSE, liberty_of |-> liberty_of]
    ELSE IF point = ko_recapture THEN [legal |-> FALSE, liberty_of |-> liberty_of]
    ELSE LET b1 == [b EXCEPT ![point] = color]
             cap == _detect_captures(b1, liberty_of, point, opponent(color))
         IN  IF ~cap.captured /\ ~_stone_has_liberty(b1, point)
             THEN LET h == _has_liberty(b1, cap.liberty_of, _block_of(b1, point))
                  IN  [legal |-> h.has, liberty_of |-> h.liberty_of]
             ELSE [legal |-> TRUE, liberty_of |-> cap.liberty_of]

\* _detect_and_process_capture: the board fields it leaves and the single
\* captured stone (NonePoint for None)
_detect_and_process_capture(b, liberty_of, nb_point) ==
    IF _fast_liberty_check(b, liberty_of, nb_point)
    THEN [board |-> b, liberty_of |-> liberty_of, single_capture |-> NonePoint]
    ELSE LET opp_block == _block_of(b, nb_point)
             h == _has_liberty(b, liberty_of, opp_block)
         IN  IF h.has
             THEN [board |-> b, liberty_of |-> h.liberty_of,
                   single_capture |-> NonePoint]
             ELSE [board |-> [p \in Points |->
                                 IF p \in opp_block THEN EMPTY ELSE b[p]],
                   liberty_of |-> [p \in Points |->
                                 IF p \in opp_block THEN NULLPOINT
                                 ELSE h.liberty_of[p]],
                   single_capture |-> IF Cardinality(opp_block) = 1
                                      THEN nb_point ELSE NonePoint]

\* The loop of play_move over the neighbours, from the i-th on
RECURSIVE capture_loop(_, _, _, _, _, _)
capture_loop(b, liberty_of, nbs, i, opp_color, single_captures) ==
    IF i > Len(nbs)
    THEN [board |-> b, liberty_of |-> liberty_of,
          single_captures |-> single_captures]
    ELSE IF b[nbs[i]] = opp_color
    THEN LET c == _detect_and_process_capture(b, liberty_of, nbs[i])
         IN  capture_loop(c.board, c.liberty_of, nbs, i + 1, opp_color,
                          IF c.single_capture # NonePoint
                          THEN Append(single_captures, c.single_capture)
                          ELSE single_captures)
    ELSE capture_loop(b, liberty_of, nbs, i + 1, opp_color, single_captures)

GoRet(ok, b, liberty_of, ko, cp) ==
    [ok |-> ok, board |-> b, liberty_of |-> liberty_of,
     ko_recapture |-> ko, current_player |-> cp]

play_move_ko_any_capture(b, liberty_of, ko_recapture, cp, point, color) ==
    IF point = PASS THEN GoRet(TRUE, b, liberty_of, NonePoint, opponent(color))
    ELSE IF b[point] # EMPTY THEN GoRet(FALSE, b, liberty_of, ko_recapture, cp)
    ELSE IF point = ko_recapture THEN GoRet(FALSE, b, liberty_of, ko_recapture, cp)
    ELSE LET opp_color == opponent(color)
             in_enemy_eye == _is_surrounded(b, point, opp_color)
             c == capture_loop([b EXCEPT ![point] = color], liberty_of,
                               neighbors(point), 1, opp_color, <<>>)
             h == _has_liberty(c.board, c.liberty_of, _block_of(c.board, point))
         IN  IF ~_stone_has_liberty(c.board, point) /\ ~h.has
             THEN GoRet(FALSE, [c.board EXCEPT ![point] = EMPTY], h.liberty_of,
                        ko_recapture, cp)
             ELSE GoRet(TRUE, c.board,
                        IF ~_stone_has_liberty(c.board, point)
                        THEN h.liberty_of ELSE c.liberty_of,
                        IF Len(c.single_captures) = 1
                        THEN c.single_captures[1] ELSE NonePoint,
                        opponent(color))

play_move_keep_suicide(b, liberty_of, ko_recapture, cp, point, color) ==
    IF point = PASS THEN GoRet(TRUE, b, liberty_of, NonePoint, opponent(color))
    ELSE IF b[point] # EMPTY THEN GoRet(FALSE, b, liberty_of, ko_recapture, cp)
    ELSE IF point = ko_recapture THEN GoRet(FALSE, b, liberty_of, ko_recapture, cp)
    ELSE LET opp_color == opponent(color)
             in_enemy_eye == _is_surrounded(b, point, opp_color)
             c == capture_loop([b EXCEPT ![point] = color], liberty_of,
                               neighbors(point), 1, opp_color, <<>>)
             h == _has_liberty(c.board, c.liberty_of, _block_of(c.board, point))
         IN  IF ~_stone_has_liberty(c.board, point) /\ ~h.has
             THEN GoRet(FALSE, c.board, h.liberty_of,
                        ko_recapture, cp)
             ELSE GoRet(TRUE, c.board,
                        IF ~_stone_has_liberty(c.board, point)
                        THEN h.liberty_of ELSE c.liberty_of,
                        IF in_enemy_eye /\ Len(c.single_captures) = 1
                        THEN c.single_captures[1] ELSE NonePoint,
                        opponent(color))

\* play_move: the returned boolean and the fields after the call
play_move(b, liberty_of, ko_recapture, cp, point, color) ==
    IF point = PASS THEN GoRet(TRUE, b, liberty_of, NonePoint, opponent(color))
    ELSE IF b[point] # EMPTY THEN GoRet(FALSE, b, liberty_of, ko_recapture, cp)
    ELSE IF point = ko_recapture THEN GoRet(FALSE, b, liberty_of, ko_recapture, cp)
    ELSE LET opp_color == opponent(color)
             in_enemy_eye == _is_surrounded(b, point, opp_color)
             c == capture_loop([b EXCEPT ![point] = color], liberty_of,
                               neighbors(point), 1, opp_color, <<>>)
             h == _has_liberty(c.board, c.liberty_of, _block_of(c.board, point))
         IN  IF ~_stone_has_liberty(c.board, point) /\ ~h.has
             THEN GoRet(FALSE, [c.board EXCEPT ![point] = EMPTY], h.liberty_of,
                        ko_recapture, cp)
             ELSE GoRet(TRUE, c.board,
                        IF ~_stone_has_liberty(c.board, point)
                        THEN h.liberty_of ELSE c.liberty_of,
                        IF in_enemy_eye /\ Len(c.single_captures) = 1
                        THEN c.single_captures[1] ELSE NonePoint,
                        opponent(color))


\* ================================================================== state
VARIABLES
    board,            \* self.board
    current_player,   \* self.current_player
    ko_recapture,     \* self.ko_recapture
    liberty_of,       \* self.liberty_of
    best_move,        \* self.best_move
    best_move_score,  \* self.best_move_score (half points)
    played,           \* gomoku moves played and not yet undone, each with
                      \* the cells and player from before it
    last,             \* the last call: its name, arguments and return value
    frames            \* the frames of a search call in progress

vars == <<board, current_player, ko_recapture, liberty_of, best_move,
          best_move_score, played, last, frames>>

\* ------------------------------------------------------------------ bounds
RegionSize == 4
MaxStones == 3
MaxPlayed == 2

\* The points the board operations are called with: the first cells of the
\* two top rows, taken column by column from the corner, one Border cell,
\* and (for the Go rules) PASS
RegionCell(k) == pt(1 + ((k - 1) % 2), 1 + ((k - 1) \div 2))
Region == {RegionCell(k) : k \in 1..RegionSize}
\* The corner cell and its two neighbours
MixRegion == {pt(1, 1)} \cup SeqRange(neighbors(pt(1, 1)))
BorderPoint == pt(1, 0)

Stones(b) == {p \in Points : b[p] \in Colors}

\* reset(size): the fields other than the cells and the player to move
InitFields ==
    /\ ko_recapture = NonePoint
    /\ liberty_of = [p \in Points |-> NULLPOINT]
    /\ best_move = NonePoint
    /\ best_move_score = 0 - 2000000
    /\ played = <<>>
    /\ frames = <<>>

Init ==
    /\ board = EmptyBoard
    /\ current_player = BLACK
    /\ InitFields
    /\ last = [op |-> "reset"]

\* ------------------------------------------------------------------ board operations
\* play_move_gomoku(point, color) on a board holding fewer than n stones
PlayGomokuUpTo(n, point, color) ==
    /\ Cardinality(Stones(board)) < n
    /\ \E r \in {play_move_gomoku(board, current_player, point, color)} :
         /\ board' = r.board
         /\ current_player' = r.current_player
         /\ played' = IF r.ok
                      THEN Append(IF Len(played) < MaxPlayed THEN played
                                  ELSE Tail(played),
                                  [point |-> point, color |-> color,
                                   board |-> board,
                                   current_player |-> current_player])
                      ELSE played
         /\ last' = [op |-> "play_move_gomoku", point |-> point,
                     color |-> color, ok |-> r.ok]
    /\ UNCHANGED <<ko_recapture, liberty_of, best_move, best_move_score, frames>>

PlayGomoku(point, color) == PlayGomokuUpTo(MaxStones, point, color)

\* undo(board, move) of the most recently played gomoku move; fresh tells
\* that the call directly follows that move's play_move_gomoku
Undo ==
    /\ played # <<>>
    /\ \E r \in {undo(board, current_player, played[Len(played)].point)} :
         /\ board' = r.board
         /\ current_player' = r.current_player
    /\ played' = SubSeq(played, 1, Len(played) - 1)
    /\ last' = [op |-> "undo", point |-> played[Len(played)].point,
                color |-> played[Len(played)].color, ok |-> TRUE,
                fresh |-> (last.op = "play_move_gomoku" /\ last.ok)]
    /\ UNCHANGED <<ko_recapture, liberty_of, best_move, best_move_score, frames>>

IsLegalGomoku(point, color) ==
    /\ last' = [op |-> "is_legal_gomoku", point |-> point, color |-> color,
                ok |-> is_legal_gomoku(board, point, color)]
    /\ UNCHANGED <<board, current_player, ko_recapture, liberty_of, best_move,
                   best_move_score, played, frames>>

\* play_move(point, color) on a board holding fewer than n stones
GoPlayUpTo(n, point, color) ==
    /\ Cardinality(Stones(board)) < n
    /\ \E r \in {play_move(board, liberty_of, ko_recapture, current_player,
                           point, color)} :
         /\ board' = r.board
         /\ liberty_of' = r.liberty_of
         /\ ko_recapture' = r.ko_recapture
         /\ current_player' = r.current_player
         /\ last' = [op |-> "play_move", point |-> point, color |-> color,
                     ok |-> r.ok]
    /\ played' = <<>>
    /\ UNCHANGED <<best_move, best_move_score, frames>>

GoPlay(point, color) == GoPlayUpTo(MaxStones, point, color)

GoIsLegal(point, color) ==
    /\ \E r \in {is_legal(board, liberty_of, ko_recapture, point, color)} :
         /\ liberty_of' = r.liberty_of
         /\ last' = [op |-> "is_legal", point |-> point, color |-> color,
                     ok |-> r.legal]
    /\ UNCHANGED <<board, current_player, ko_recapture, best_move,
                   best_move_score, played, frames>>

\* Every board operation, gomoku and Go, in any interleaving
Next ==
    \/ \E point \in MixRegion \cup {BorderPoint}, color \in Colors :
          PlayGomoku(point, color)
    \/ Undo
    \/ \E point \in MixRegion \cup {BorderPoint}, color \in Colors :
          IsLegalGomoku(point, color)
    \/ \E point \in MixRegion \cup {BorderPoint, PASS}, color \in Colors :
          GoPlay(point, color)
    \/ \E point \in MixRegion \cup {BorderPoint, PASS}, color \in Colors :
          GoIsLegal(point, color)

Spec == Init /\ [][Next]_vars

\* The gomoku game loop: plays, undos and legality queries
NextGomoku ==
    \/ \E point \in Region \cup {BorderPoint}, color \in Colors :
          PlayGomoku(point, color)
    \/ Undo
    \/ \E point \in Region \cup {BorderPoint}, color \in Colors :
          IsLegalGomoku(point, color)

SpecGomoku == Init /\ [][NextGomoku]_vars

\* A game played in turns: every accepted play is made with the colour of
\* the player to move; rejected plays (on a stone or a Border cell) come
\* with either colour; undo takes back the most recent play
TurnStones == 4

PlayTurn(point) ==
    PlayGomokuUpTo(TurnStones + 1, point, current_player)

RejectedPlay(point, color) ==
    /\ board[point] # EMPTY
    /\ PlayGomokuUpTo(TurnStones + 1, point, color)

NextTurns ==
    \/ \E point \in Region : PlayTurn(point)
    \/ \E point \in Region \cup {BorderPoint}, color \in Colors :
          RejectedPlay(point, color)
    \/ Undo

SpecTurns == Init /\ [][NextTurns]_vars

\* The Go rules alone, on the first cells of the two top rows taken row by
\* row from the corner, with PASS
GoRegionSize == 5
GoCell(k) == pt(1 + ((k - 1) \div 3), 1 + ((k - 1) % 3))
GoRegion == {GoCell(k) : k \in 1..GoRegionSize}

NextGo ==
    \/ \E point \in GoRegion \cup {PASS}, color \in Colors :
          GoPlayUpTo(GoRegionSize + 1, point, color)
    \/ \E point \in GoRegion \cup {PASS}, color \in Colors :
          GoIsLegal(point, color)

SpecGo == Init /\ [][NextGo]_vars

\* ================================================================== detectors
\* Boards for the terminal test and the pattern detector: a shape of one
\* colour laid on a line of the empty board, optionally with a second shape
\* on the bottom row, and the full and nearly full boards of the search.

\* A filled board without any run of three: colours repeat "xxoo" along
\* every row, shifted by two from one row to the next
Fill(r, c) == IF (c + 2 * r) % 4 < 2 THEN BLACK ELSE WHITE

FillBoard ==
    [p \in Points |-> IF p \in OnBoard THEN Fill(p \div NS, p % NS) ELSE BORDER]

MaxEmpty == 3
MaxFlip == 1

\* The centre and its four neighbours
SearchCands == {pt(4, 4)} \cup SeqRange(neighbors(pt(4, 4)))

Flip(color) == opponent(color)

NearFull(E, F) ==
    [p \in Points |-> IF p \in E THEN EMPTY
                      ELSE IF p \in F THEN Flip(FillBoard[p])
                      ELSE FillBoard[p]]

NearFullBoards(maxE, maxF) ==
    {NearFull(E, F) : <<E, F>> \in
        {ef \in (SUBSET SearchCands) \X (SUBSET SearchCands) :
            /\ Cardinality(ef[1]) <= maxE
            /\ Cardinality(ef[2]) <= maxF
            /\ ef[1] \cap ef[2] = {}}}

Shapes == {"xx", "xxx", "xxxx", "xxxxx", "xxxxxx", "xxxxxxx",
           "xx.x", "x.xx", "xx.xx", "xxx.x", "x.xxx", "xxxx.x", "xxx.xxx"}

Placements == {<<pt(1, 1), 1>>, <<pt(1, 1), NS>>, <<pt(1, 1), NS + 1>>,
               <<pt(1, size), NS - 1>>,
               <<pt(2, 2), 1>>, <<pt(2, 2), NS>>, <<pt(2, 2), NS + 1>>,
               <<pt(2, size - 1), NS - 1>>}

Fits(shape, start, step) ==
    \A k \in 0 .. (Len(shape) - 1) : (start + k * step) \in OnBoard

RECURSIVE PlaceShape(_, _, _, _, _)
PlaceShape(b, shape, color, start, step) ==
    IF Len(shape) = 0 THEN b
    ELSE PlaceShape([b EXCEPT ![start] = IF Head(shape) = "x" THEN color ELSE EMPTY],
                    Tail(shape), color, start + step, step)

\* The second shape, on the bottom row: none, or four or five in a row
Seconds == {<<"", BLACK>>, <<"xxxx", BLACK>>, <<"xxxx", WHITE>>, <<"xxxxx", WHITE>>}

ShapeBoards ==
    {PlaceShape(PlaceShape(EmptyBoard, sh, c, pl[1], pl[2]),
                sec[1], sec[2], pt(size, 1), 1) :
        <<sh, c, pl, sec>> \in
            {t \in Shapes \X Colors \X Placements \X Seconds :
                Fits(t[1], t[3][1], t[3][2])}}

\* Full boards carrying a run of five or six
FullShapeBoards ==
    {PlaceShape(FillBoard, sh, c, pl[1], pl[2]) :
        <<sh, c, pl>> \in
            {t \in {"xxxxx", "xxxxxx"} \X Colors \X Placements :
                Fits(t[1], t[3][1], t[3][2])}}

\* Boards holding nothing but three stones in a row, anywhere on any line
ThreeBoards ==
    {PlaceShape(EmptyBoard, "xxx", t[1], t[2], t[3]) :
        t \in {u \in Colors \X OnBoard \X {1, NS, NS + 1, NS - 1} :
                  Fits("xxx", u[2], u[3])}}

DetectBoards ==
    ShapeBoards \cup NearFullBoards(1, 0) \cup FullShapeBoards \cup ThreeBoards

InitDetect ==
    /\ board \in DetectBoards
    /\ current_player \in Colors
    /\ InitFields
    /\ last = [op |-> "init"]


\* Each behaviour draws a board and a player to move and makes one call
BoardFields == <<board, current_player, ko_recapture, liberty_of, best_move,
                 best_move_score, played, frames>>

CheckGameEnd ==
    /\ last.op = "init"
    /\ last' = [op |-> "check_game_end_gomoku", res |-> check_game_end_gomoku(board)]
    /\ UNCHANGED BoardFields

GameEnd ==
    /\ last.op = "init"
    /\ last' = [op |-> "game_end", res |-> game_end(board, current_player)]
    /\ UNCHANGED BoardFields

ListSolvePoint ==
    /\ last.op = "init"
    /\ last' = [op |-> "list_solve_point",
                res |-> list_solve_point(board, current_player)]
    /\ UNCHANGED BoardFields

WinDetection ==
    /\ last.op = "init"
    /\ last' = [op |-> "winDetection", res |-> winDetection(board, current_player)]
    /\ UNCHANGED BoardFields

\* Variant: the first move found is left on the board
GetPatternMoves_keeps_move ==
    /\ last.op = "init"
    /\ last' = [op |-> "get_pattern_moves",
                res |-> get_pattern_moves(board, current_player)]
    /\ board' = IF get_pattern_moves(board, current_player).moves = {}
                THEN board
                ELSE [board EXCEPT
                        ![SetMin(get_pattern_moves(board, current_player).moves)]
                            = current_player]
    /\ UNCHANGED <<current_player, ko_recapture, liberty_of, best_move,
                   best_move_score, played, frames>>

GetPatternMoves ==
    /\ last.op = "init"
    /\ last' = [op |-> "get_pattern_moves",
                res |-> get_pattern_moves(board, current_player)]
    /\ UNCHANGED BoardFields

\* The points point_check_game_end_gomoku is called with: the first two
\* cells of every line a shape is laid on
CheckPoints == {pl[1] + k * pl[2] : pl \in Placements, k \in 0..1}

PointCheckGameEnd(point) ==
    /\ last.op = "init"
    /\ board[point] \in Colors
    /\ last' = [op |-> "point_check_game_end_gomoku", point |-> point,
                res |-> point_check_game_end_gomoku(board, point)]
    /\ UNCHANGED BoardFields

NextDetect ==
    \/ CheckGameEnd
    \/ GameEnd
    \/ ListSolvePoint
    \/ WinDetection
    \/ GetPatternMoves
    \/ \E point \in CheckPoints : PointCheckGameEnd(point)

SpecDetect == InitDetect /\ [][NextDetect]_vars


\* ================================================================== search
\* A board written row by row: "X" Black, "O" White, "." empty
RowsBoard(rows) ==
    [p \in Points |->
        IF p \in OnBoard
        THEN LET ch == SubSeq(rows[p \div NS], p % NS, p % NS)
             IN  IF ch = "X" THEN BLACK ELSE IF ch = "O" THEN WHITE ELSE EMPTY
        ELSE BORDER]

\* Black to move must block at (5,7); White then has the double four at (3,4)
BlockThenThrees ==
    RowsBoard(<<".XXX..O",
                "XXX.OXO",
                "OOO..XO",
                "XXOOOXO",
                "OXXOOO.",
                "OXOOXXX",
                ".XXX..O">>)

\* White to move wins by (2,5), while Black's open three on row 5 asks for a block
ThreeToBlock ==
    RowsBoard(<<"XOXOOOX",
                "XOOO..O",
                "XOOOOXO",
                "OXOO.OX",
                "O.XXX..",
                "XOOOOXX",
                "O.XXXOX">>)

SolveBoards == {BlockThenThrees, ThreeToBlock}

\* White's four and one on row 4 wait for the same cell (4,5), which is
\* the last cell of one 5-cell window and the fourth of the next
OneCellTwoWindows ==
    RowsBoard(<<"OXXOOXX",
                "XOOXXOO",
                "OXXOOXX",
                "OOOO.OX",
                "OXXOOXX",
                "XOOXXOO",
                "OXXOOX.">>)

ThreatBoards == {OneCellTwoWindows}

SearchBoards ==
    NearFullBoards(MaxEmpty, MaxFlip) \cup SolveBoards \cup ThreatBoards

InitSearch ==
    /\ board \in SearchBoards
    /\ current_player \in Colors
    /\ InitFields
    /\ last = [op |-> "init"]

AlphaBetaWindows == {<<0 - INFINITY, INFINITY>>, <<0 - INFINITY, 0>>, <<0, INFINITY>>}
NegaABWindows == {<<0 - 1, 1>>, <<0, 1>>}
Depths == 0 .. START_DEPTH

AlphaBeta(alpha, beta, d) ==
    /\ last.op = "init"
    /\ \E r \in alphabeta(board, current_player, alpha, beta, d) :
         /\ board' = r.board
         /\ current_player' = r.current_player
         /\ last' = [op |-> "alphabeta", alpha |-> alpha, beta |-> beta,
                     d |-> d, raised |-> r.raised, v |-> r.v]
    /\ UNCHANGED <<ko_recapture, liberty_of, best_move, best_move_score, played, frames>>

Solve ==
    /\ last.op = "init"
    /\ \E r \in solve(board, current_player, best_move, best_move_score) :
         /\ board' = r.board
         /\ current_player' = r.current_player
         /\ best_move' = r.best_move
         /\ best_move_score' = r.best_move_score
         /\ last' = [op |-> "solve", raised |-> r.raised, tag |-> r.tag,
                     value |-> r.value, flag |-> r.flag, point |-> r.point]
    /\ UNCHANGED <<ko_recapture, liberty_of, played, frames>>

NegaAB(alpha, beta, d) ==
    /\ last.op = "init"
    /\ \E r \in {negaAB(board, current_player, alpha, beta, d, NonePoint,
                        best_move, best_move_score)} :
         /\ board' = r.board
         /\ current_player' = r.current_player
         /\ best_move' = r.best_move
         /\ best_move_score' = r.best_move_score
         /\ last' = [op |-> "negaAB", alpha |-> alpha, beta |-> beta,
                     d |-> d, raised |-> r.raised, v |-> r.v, move |-> r.move]
    /\ UNCHANGED <<ko_recapture, liberty_of, played, frames>>

NextSearch ==
    \/ \E w \in AlphaBetaWindows, d \in Depths : AlphaBeta(w[1], w[2], d)
    \/ Solve
    \/ \E w \in NegaABWindows, d \in Depths : NegaAB(w[1], w[2], d)

SpecSearch == InitSearch /\ [][NextSearch]_vars


\* ================================================================== search, call by call
\* The three searches run one step at a time on the one board object: every
\* call in progress has a frame with its locals, the topmost frame runs, and
\* a frame below it waits for the value its recursive call returns.
\*   pc = "start":  at the first line of the function
\*   pc = "forced": at the recursive call of the critical-point branch
\*                  (alphabeta.py:32, :67; simple_board.py:803, :817)
\*   pc = "loop":   at the head of the loop over the moves
\*   pc = "body":   at the recursive call of the loop body
Frame(fn, alpha, beta, d, prev_move) ==
    [fn |-> fn, pc |-> "start", alpha |-> alpha, beta |-> beta, d |-> d,
     prev_move |-> prev_move, moves |-> <<>>, m |-> NonePoint, rv |-> 0]

\* A configuration a step leads to
Cfg(b, cp, bm, bms, fr, l) ==
    [board |-> b, current_player |-> cp, best_move |-> bm,
     best_move_score |-> bms, frames |-> fr, last |-> l]

Done(l, raised, v, tag, point) ==
    [op |-> "done", fn |-> l.fn, alpha |-> l.alpha, beta |-> l.beta,
     d |-> l.d, empties |-> l.empties, raised |-> raised, v |-> v,
     tag |-> tag, point |-> point]

\* return v: the frame goes, the caller receives v
ReturnStep(b, cp, bm, bms, fr, l, v, tag, point) ==
    IF Len(fr) = 1
    THEN Cfg(b, cp, bm, bms, <<>>, Done(l, FALSE, v, tag, point))
    ELSE Cfg(b, cp, bm, bms,
             Append(SubSeq(fr, 1, Len(fr) - 2),
                    [fr[Len(fr) - 1] EXCEPT !.rv = v]), l)

\* An exception leaves through every frame; nothing is undone
RaiseStep(b, cp, bm, bms, fr, l) ==
    Cfg(b, cp, bm, bms, <<>>, Done(l, TRUE, 0, "Raise", NonePoint))

\* The running frame becomes top and stays
StayStep(b, cp, bm, bms, fr, l, top) ==
    Cfg(b, cp, bm, bms, Append(SubSeq(fr, 1, Len(fr) - 1), top), l)

\* The running frame becomes top and waits for child
CallStep(b, cp, bm, bms, fr, l, top, child) ==
    Cfg(b, cp, bm, bms,
        Append(Append(SubSeq(fr, 1, Len(fr) - 1), top), child), l)

\* Variant: the loop body does not move on to the next move
alphabeta_step_same_move(b, cp, bm, bms, fr, l) ==
    LET T == fr[Len(fr)]
    IN  IF T.pc = "start"
        THEN LET result == game_end(b, cp)
                 solvePoint == list_solve_point(b, cp)
             IN  IF result.raised THEN {RaiseStep(b, cp, bm, bms, fr, l)}
                 ELSE IF result.terminal
                 THEN {ReturnStep(b, cp, bm, bms, fr, l, result.val, "", NonePoint)}
                 ELSE IF solvePoint.tier # 0
                 THEN {LET pl == play_move_gomoku(b, cp, m, cp)
                       IN  CallStep(pl.board, pl.current_player, bm, bms, fr, l,
                                    [T EXCEPT !.pc = "forced", !.m = m],
                                    Frame("alphabeta", 0 - T.beta, 0 - T.alpha,
                                          T.d - 1, NonePoint)) :
                          m \in first_candidates(solvePoint)}
                 ELSE IF T.d <= 0
                 THEN {ReturnStep(b, cp, bm, bms, fr, l,
                                  get_heuristic_score(b, cp), "", NonePoint)}
                 ELSE {StayStep(b, cp, bm, bms, fr, l,
                                [T EXCEPT !.pc = "loop",
                                          !.moves = generate_legal_moves_gomoku(b)])}
        ELSE IF T.pc = "forced"
        THEN LET result == 0 - T.rv
                 alpha1 == IF result > T.alpha THEN result ELSE T.alpha
                 u == undo(b, cp, T.m)
             IN  {ReturnStep(u.board, u.current_player, bm, bms, fr, l,
                             IF result >= T.beta THEN T.beta ELSE alpha1,
                             "", NonePoint)}
        ELSE IF T.pc = "loop"
        THEN IF T.moves = <<>>
             THEN {ReturnStep(b, cp, bm, bms, fr, l, T.alpha, "", NonePoint)}
             ELSE LET pl == play_move_gomoku(b, cp, Head(T.moves), cp)
                  IN  {CallStep(pl.board, pl.current_player, bm, bms, fr, l,
                                [T EXCEPT !.pc = "body", !.m = Head(T.moves),
                                          !.moves = Tail(T.moves)],
                                Frame("alphabeta", 0 - T.beta, 0 - T.alpha,
                                      T.d - 1, NonePoint))}
        ELSE LET result == 0 - T.rv
                 alpha1 == IF result > T.alpha THEN result ELSE T.alpha
                 u == undo(b, cp, T.m)
             IN  IF result >= T.beta
                 THEN {ReturnStep(u.board, u.current_player, bm, bms, fr, l,
                                  T.beta, "", NonePoint)}
                 ELSE {StayStep(u.board, u.current_player, bm, bms, fr, l,
                                [T EXCEPT !.pc = "loop", !.alpha = alpha1,
                                          !.moves = <<T.m>> \o T.moves])}

\* One step of the running alphabeta frame
alphabeta_step(b, cp, bm, bms, fr, l) ==
    LET T == fr[Len(fr)]
    IN  IF T.pc = "start"
        THEN LET result == game_end(b, cp)
                 solvePoint == list_solve_point(b, cp)
             IN  IF result.raised THEN {RaiseStep(b, cp, bm, bms, fr, l)}
                 ELSE IF result.terminal
                 THEN {ReturnStep(b, cp, bm, bms, fr, l, result.val, "", NonePoint)}
                 ELSE IF solvePoint.tier # 0
                 THEN {LET pl == play_move_gomoku(b, cp, m, cp)
                       IN  CallStep(pl.board, pl.current_player, bm, bms, fr, l,
                                    [T EXCEPT !.pc = "forced", !.m = m],
                                    Frame("alphabeta", 0 - T.beta, 0 - T.alpha,
                                          T.d - 1, NonePoint)) :
                          m \in first_candidates(solvePoint)}
                 ELSE IF T.d <= 0
                 THEN {ReturnStep(b, cp, bm, bms, fr, l,
                                  get_heuristic_score(b, cp), "", NonePoint)}
                 ELSE {StayStep(b, cp, bm, bms, fr, l,
                                [T EXCEPT !.pc = "loop",
                                          !.moves = generate_legal_moves_gomoku(b)])}
        ELSE IF T.pc = "forced"
        THEN LET result == 0 - T.rv
                 alpha1 == IF result > T.alpha THEN result ELSE T.alpha
                 u == undo(b, cp, T.m)
             IN  {ReturnStep(u.board, u.current_player, bm, bms, fr, l,
                             IF result >= T.beta THEN T.beta ELSE alpha1,
                             "", NonePoint)}
        ELSE IF T.pc = "loop"
        THEN IF T.moves = <<>>
             THEN {ReturnStep(b, cp, bm, bms, fr, l, T.alpha, "", NonePoint)}
             ELSE LET pl == play_move_gomoku(b, cp, Head(T.moves), cp)
                  IN  {CallStep(pl.board, pl.current_player, bm, bms, fr, l,
                                [T EXCEPT !.pc = "body", !.m = Head(T.moves),
                                          !.moves = Tail(T.moves)],
                                Frame("alphabeta", 0 - T.beta, 0 - T.alpha,
                                      T.d - 1, NonePoint))}
        ELSE LET result == 0 - T.rv
                 alpha1 == IF result > T.alpha THEN result ELSE T.alpha
                 u == undo(b, cp, T.m)
             IN  IF result >= T.beta
                 THEN {ReturnStep(u.board, u.current_player, bm, bms, fr, l,
                                  T.beta, "", NonePoint)}
                 ELSE {StayStep(u.board, u.current_player, bm, bms, fr, l,
                                [T EXCEPT !.pc = "loop", !.alpha = alpha1])}

\* One step of the solve frame; rv of a "NoMove" return is haveDraw
solve_step(b, cp, bm, bms, fr, l) ==
    LET T == fr[Len(fr)]
        child == Frame("alphabeta", 0 - INFINITY, INFINITY, START_DEPTH, NonePoint)
    IN  IF T.pc = "start"
        THEN LET result == game_end(b, cp)
                 solvePoint == list_solve_point(b, cp)
             IN  IF result.raised THEN {RaiseStep(b, cp, bm, bms, fr, l)}
                 ELSE IF result.terminal
                 THEN {ReturnStep(b, cp, bm, bms, fr, l, result.val, "First",
                                  NonePoint)}
                 ELSE IF solvePoint.tier # 0
                 THEN {LET pl == play_move_gomoku(b, cp, m, cp)
                       IN  CallStep(pl.board, pl.current_player, NonePoint,
                                    0 - INFINITY, fr, l,
                                    [T EXCEPT !.pc = "forced", !.m = m], child) :
                          m \in first_candidates(solvePoint)}
                 ELSE {StayStep(b, cp, NonePoint, 0 - INFINITY, fr, l,
                                [T EXCEPT !.pc = "loop",
                                          !.moves = generate_legal_moves_gomoku(b)])}
        ELSE IF T.pc = "forced"
        THEN LET result == 0 - T.rv
                 u == undo(b, cp, T.m)
             IN  IF result = INFINITY
                 THEN {ReturnStep(u.board, u.current_player, bm, bms, fr, l,
                                  1, "Move", T.m)}
                 ELSE {ReturnStep(u.board, u.current_player, bm, bms, fr, l,
                                  IF result = 0 THEN 1 ELSE 0, "NoMove",
                                  NonePoint)}
        ELSE IF T.pc = "loop"
        THEN IF T.moves = <<>>
             THEN {ReturnStep(b, cp, bm, bms, fr, l, 0, "NoMove", NonePoint)}
             ELSE LET pl == play_move_gomoku(b, cp, Head(T.moves), cp)
                  IN  {CallStep(pl.board, pl.current_player, bm, bms, fr, l,
                                [T EXCEPT !.pc = "body", !.m = Head(T.moves),
                                          !.moves = Tail(T.moves)], child)}
        ELSE LET result == 0 - T.rv
                 u == undo(b, cp, T.m)
             IN  IF result = INFINITY
                 THEN {ReturnStep(u.board, u.current_player, bm, bms, fr, l,
                                  1, "Move", T.m)}
                 ELSE IF result > bms
                 THEN {StayStep(u.board, u.current_player, T.m, result, fr, l,
                                [T EXCEPT !.pc = "loop"])}
                 ELSE {StayStep(u.board, u.current_player, bm, bms, fr, l,
                                [T EXCEPT !.pc = "loop"])}

\* One step of the running negaAB frame
negaAB_step(b, cp, bm, bms, fr, l) ==
    LET T == fr[Len(fr)]
        block(point) ==
            CallStep([b EXCEPT ![point] = cp], opponent(cp), bm, bms, fr, l,
                     [T EXCEPT !.pc = "forced", !.m = point],
                     Frame("negaAB", 0 - T.beta, 0 - T.alpha, T.d - 1, point))
    IN  IF T.pc = "start"
        THEN LET empty_points == sorted_list(get_empty_points(b))
                 score == get_heuristic_score(b, cp)
                 w == winDetection(b, cp)
             IN  IF T.d = 0
                 THEN IF score > bms
                      THEN {ReturnStep(b, cp, T.prev_move, score, fr, l,
                                       IF score = 2 * WINNER_SCORE THEN 1
                                       ELSE IF score = 0 - 2 * WINNER_SCORE
                                       THEN 0 - 1 ELSE 0,
                                       "", NonePoint)}
                      ELSE {ReturnStep(b, cp, bm, bms, fr, l, 0, "", NonePoint)}
                 ELSE IF Len(empty_points) = 0
                 THEN {ReturnStep(b, cp, bm, bms, fr, l, 0, "", NonePoint)}
                 ELSE IF Len(w.myWins) > 0
                 THEN {ReturnStep(b, cp, bm, bms, fr, l, 1, "", w.myWins[1])}
                 ELSE IF Len(w.theirWins) > 1
                 THEN {ReturnStep(b, cp, bm, bms, fr, l, 0 - 1, "", w.theirWins[1])}
                 ELSE IF Len(w.theirWins) = 1
                 THEN IF Len(w.their2mWins) > 0
                      THEN {ReturnStep(b, cp, bm, bms, fr, l, 0 - 1, "",
                                       w.theirWins[1])}
                      ELSE {block(w.theirWins[1])}
                 ELSE IF Len(w.my2mWins) > 0
                 THEN {ReturnStep(b, cp, bm, bms, fr, l, 1, "", w.my2mWins[1])}
                 ELSE IF Len(w.their2mWins) > 1
                 THEN {ReturnStep(b, cp, bm, bms, fr, l, 0 - 1, "",
                                  w.their2mWins[1])}
                 ELSE IF Len(w.their2mWins) = 1
                 THEN {block(w.their2mWins[1])}
                 ELSE {StayStep(b, cp, bm, bms, fr, l,
                                [T EXCEPT !.pc = "loop", !.moves = empty_points,
                                          !.m = empty_points[1]])}
        ELSE IF T.pc = "forced"
        THEN {ReturnStep([b EXCEPT ![T.m] = EMPTY], opponent(cp), bm, bms, fr, l,
                         0 - T.rv, "", T.m)}
        ELSE IF T.pc = "loop"
        THEN IF Len(T.moves) = 0
             THEN {ReturnStep(b, cp, bm, bms, fr, l, T.alpha, "", T.m)}
             ELSE LET pnt == T.moves[Len(T.moves)]
                      rest == SubSeq(T.moves, 1, Len(T.moves) - 1)
                      b1 == [b EXCEPT ![pnt] = cp]
                      ended == point_check_game_end_gomoku(b1, pnt)
                  IN  IF ended = AssertionError
                      THEN {RaiseStep(b1, cp, bm, bms, fr, l)}
                      ELSE IF ended = True
                      THEN {ReturnStep(b, cp, bm, bms, fr, l, 1, "", pnt)}
                      ELSE {CallStep(b1, opponent(cp), bm, bms, fr, l,
                                     [T EXCEPT !.pc = "body", !.m = pnt,
                                               !.moves = rest],
                                     Frame("negaAB", 0 - T.beta, 0 - T.alpha,
                                           T.d - 1, pnt))}
        ELSE LET v == 0 - T.rv
                 alpha1 == IF v > T.alpha THEN v ELSE T.alpha
                 b2 == [b EXCEPT ![T.m] = EMPTY]
             IN  IF v >= T.beta
                 THEN {ReturnStep(b2, opponent(cp), bm, bms, fr, l, T.beta, "", T.m)}
                 ELSE {StayStep(b2, opponent(cp), bm, bms, fr, l,
                                [T EXCEPT !.pc = "loop", !.alpha = alpha1])}

\* The depths the searches are called with, one of them below 0
TermDepths == (0 - 1) .. START_DEPTH

\* A call from outside: the first frame
Call(fn, alpha, beta, d) ==
    /\ last.op = "init"
    /\ frames' = <<Frame(fn, alpha, beta, d, NonePoint)>>
    /\ last' = [op |-> "call", fn |-> fn, alpha |-> alpha, beta |-> beta,
                d |-> d, empties |-> Cardinality(get_empty_points(board))]
    /\ UNCHANGED <<board, current_player, ko_recapture, liberty_of, best_move,
                   best_move_score, played>>

\* The topmost frame takes the step n
Step(fn, n) ==
    /\ frames # <<>>
    /\ frames[Len(frames)].fn = fn
    /\ board' = n.board
    /\ current_player' = n.current_player
    /\ best_move' = n.best_move
    /\ best_move_score' = n.best_move_score
    /\ frames' = n.frames
    /\ last' = n.last
    /\ UNCHANGED <<ko_recapture, liberty_of, played>>

AlphaBetaStep ==
    /\ frames # <<>>
    /\ \E n \in alphabeta_step(board, current_player, best_move,
                               best_move_score, frames, last) :
          Step("alphabeta", n)

SolveStep ==
    /\ frames # <<>>
    /\ \E n \in solve_step(board, current_player, best_move, best_move_score,
                           frames, last) :
          Step("solve", n)

NegaABStep ==
    /\ frames # <<>>
    /\ \E n \in negaAB_step(board, current_player, best_move, best_move_score,
                            frames, last) :
          Step("negaAB", n)

NextTerm ==
    \/ \E w \in AlphaBetaWindows, d \in TermDepths : Call("alphabeta", w[1], w[2], d)
    \/ Call("solve", 0 - INFINITY, INFINITY, START_DEPTH)
    \/ \E w \in NegaABWindows, d \in Depths : Call("negaAB", w[1], w[2], d)
    \/ AlphaBetaStep
    \/ SolveStep
    \/ NegaABStep

\* Python runs a call to its end: a frame that can step does step
SpecTerm == InitSearch /\ [][NextTerm]_vars /\ WF_vars(NextTerm)


\* ================================================================== properties
Top(stack) == stack[Len(stack)]

IsPlay(l) == l.op \in {"play_move_gomoku", "play_move"}

\* C1 as stated: play_move_gomoku(p, c) directly followed by undo(p) leaves
\* every cell and current_player as they were before the play, for either
\* colour c, whether or not c is the player to move.
C1_AnyColor ==
    [][(last'.op = "undo" /\ last.op = "play_move_gomoku" /\ last.ok)
         => (/\ board' = Top(played).board
             /\ current_player' = Top(played).current_player)]_vars

\* C1 amended: play_move_gomoku(p, c) directly followed by undo(p) restores
\* every cell, and restores current_player when c is the player to move at
\* the time of the play; when c is the other colour the cells are restored
\* and current_player ends up flipped.
C1_UndoSymmetry ==
    [][(last'.op = "undo" /\ last.op = "play_move_gomoku" /\ last.ok)
         => (/\ board' = Top(played).board
             /\ (current_player' = Top(played).current_player)
                  <=> (Top(played).color = Top(played).current_player))]_vars

\* A play by the player to move has just been undone
C1_Witness ==
    /\ last.op = "undo"
    /\ last.fresh
    /\ last.color = current_player
    /\ board[last.point] = EMPTY

\* C4 as stated: an accepted play_move_gomoku(p, c) or play_move(p, c), a
\* pass included, leaves current_player different from before the call for
\* every colour c, and a rejected call leaves it unchanged.
C4_AlwaysToggles ==
    [][IsPlay(last')
         => IF last'.ok THEN current_player' # current_player
            ELSE current_player' = current_player]_vars

\* C4 amended: an accepted play_move_gomoku(p, c) or play_move(p, c), a pass
\* included, sets current_player to the opponent of c, so current_player
\* changes exactly when c was the player to move; a rejected call leaves
\* current_player unchanged.
C4_PlayerAfterPlay ==
    [][IsPlay(last')
         => IF last'.ok
            THEN /\ current_player' = opponent(last'.color)
                 /\ (current_player' # current_player)
                      <=> (last'.color = current_player)
            ELSE current_player' = current_player]_vars

\* An accepted gomoku play by the colour that was not to move
C4_Witness ==
    /\ last.op = "play_move_gomoku"
    /\ last.ok
    /\ played # <<>>
    /\ Top(played).color # Top(played).current_player
    /\ current_player = Top(played).current_player

\* C5: play_move_gomoku(p, c) on a cell that is not EMPTY (a stone of either
\* colour or a Border cell) returns false and leaves the cells,
\* current_player and ko_recapture unchanged; on an EMPTY cell it returns
\* true and changes no cell but p, which becomes c, and leaves ko_recapture
\* unchanged.
C5_PlayGomokuEffect ==
    [][last'.op = "play_move_gomoku"
         => IF board[last'.point] # EMPTY
            THEN /\ ~last'.ok
                 /\ board' = board
                 /\ current_player' = current_player
                 /\ ko_recapture' = ko_recapture
            ELSE /\ last'.ok
                 /\ board' = [board EXCEPT ![last'.point] = last'.color]
                 /\ Stones(board) \subseteq Stones(board')
                 /\ ko_recapture' = ko_recapture]_vars

\* A play on a Border cell has been rejected
C5_Witness ==
    /\ last.op = "play_move_gomoku"
    /\ ~last.ok
    /\ board[last.point] = BORDER

\* C6: is_legal_gomoku(p, c) is true exactly when p is an on-board cell that
\* is EMPTY, whatever the colour, the ko point and the liberties, and it is
\* the accept/reject answer of play_move_gomoku(p, c) in the same state.
C6_IsLegalGomoku ==
    last.op = "is_legal_gomoku"
      => /\ last.ok <=> (last.point \in OnBoard /\ board[last.point] = EMPTY)
         /\ \A c \in Colors :
              /\ is_legal_gomoku(board, last.point, c) = last.ok
              /\ play_move_gomoku(board, current_player, last.point, c).ok = last.ok

\* is_legal_gomoku accepted a point that the Go rules reject (suicide)
C6_Witness ==
    /\ last.op = "is_legal_gomoku"
    /\ last.ok
    /\ ~is_legal(board, liberty_of, ko_recapture, last.point, last.color).legal

\* ------------------------------------------------------------------ runs and windows
Steps == {Shifts[i] : i \in 1..Len(Shifts)}

\* n consecutive cells of colour c start at s and go in steps of st
RunAt(b, c, s, st, n) ==
    \A k \in 0 .. (n - 1) : (s + k * st) \in Points /\ b[s + k * st] = c

\* Some line holds n or more consecutive stones of colour c
HasRun(b, c, n) == \E s \in OnBoard, st \in Steps : RunAt(b, c, s, st, n)

\* Some line holds a maximal run of exactly n stones of colour c
HasMaximalRun(b, c, n) ==
    \E s \in OnBoard, st \in Steps :
        /\ RunAt(b, c, s, st, n)
        /\ b[s - st] # c
        /\ b[s + n * st] # c

\* The empty cells that complete four-plus-one of colour c in a 5-cell window
Win5(b, c) ==
    {p \in OnBoard :
        /\ b[p] = EMPTY
        /\ \E st \in Steps, j \in 0..4 :
             \A k \in 0..4 :
                 /\ (p + (k - j) * st) \in Points
                 /\ (k # j => b[p + (k - j) * st] = c)}

\* The empty cells that turn three stones of colour c into four with both
\* ends open, in a 6-cell window
OpenFour(b, c) ==
    {p \in OnBoard :
        /\ b[p] = EMPTY
        /\ \E st \in Steps, j \in 1..4 :
             /\ \A k \in 0..5 : (p + (k - j) * st) \in Points
             /\ b[p - j * st] = EMPTY
             /\ b[p + (5 - j) * st] = EMPTY
             /\ \A k \in 1..4 : k # j => b[p + (k - j) * st] = c}

\* The empty cells next to three consecutive stones of colour c that have
\* two empty cells on their far side
BlockEnds(b, c) ==
    {p \in OnBoard :
        /\ b[p] = EMPTY
        /\ \E st \in Steps, e \in {1, 0 - 1} :
             /\ \A k \in 1..5 : (p + k * e * st) \in Points
             /\ \A k \in 1..3 : b[p + k * e * st] = c
             /\ b[p + 4 * e * st] = EMPTY
             /\ b[p + 5 * e * st] = EMPTY}

\* The four candidate tiers of a position for the player to move
Tiers(b, cp) ==
    <<Win5(b, cp), Win5(b, opponent(cp)), OpenFour(b, cp),
      OpenFour(b, opponent(cp)) \cup BlockEnds(b, opponent(cp))>>

C8_TerminalValue ==
    last.op = "game_end"
      => LET r == last.res
             mine == HasRun(board, current_player, 5)
             theirs == HasRun(board, opponent(current_player), 5)
             full == get_empty_points(board) = {}
         IN  /\ ~r.raised
             /\ mine => (r.terminal /\ r.val = INFINITY)
             /\ theirs => (r.terminal /\ r.val = 0 - INFINITY)
             /\ (r.terminal /\ r.val = 0) <=> (~mine /\ ~theirs /\ full)
             /\ (~mine /\ ~theirs /\ ~full) => ~r.terminal
             /\ r.terminal
                  => \A w \in AlphaBetaWindows, d \in Depths :
                       alphabeta(board, current_player, w[1], w[2], d)
                         = {Ret(r.val, board, current_player)}

\* C8 amended: with a 5-run meaning 5 or more consecutive stones, and the
\* winner being White when White has a 5-run and Black when only Black has
\* one, game_end returns +INFINITY if the winner is the player to move,
\* -INFINITY if the winner is the other player, 0 exactly when there is no
\* 5-run and no empty cell, and "not terminal" otherwise; a 5-run takes
\* precedence over fullness, and alphabeta returns this value for every
\* window and depth and leaves the board and the player to move as they were.
C8_TerminalValueWhiteFirst ==
    last.op = "game_end"
      => LET r == last.res
             white == HasRun(board, WHITE, 5)
             black == HasRun(board, BLACK, 5)
             winner == IF white THEN WHITE ELSE BLACK
             full == get_empty_points(board) = {}
         IN  /\ ~r.raised
             /\ (white \/ black)
                  => /\ r.terminal
                     /\ r.val = (IF winner = current_player
                                 THEN INFINITY ELSE 0 - INFINITY)
             /\ (r.terminal /\ r.val = 0) <=> (~white /\ ~black /\ full)
             /\ (~white /\ ~black /\ ~full) => ~r.terminal
             /\ r.terminal
                  => \A w \in AlphaBetaWindows, d \in Depths :
                       alphabeta(board, current_player, w[1], w[2], d)
                         = {Ret(r.val, board, current_player)}

\* Both colours have a 5-run and Black, to move, gets -INFINITY
C8_Witness ==
    /\ last.op = "game_end"
    /\ HasRun(board, WHITE, 5)
    /\ HasRun(board, BLACK, 5)
    /\ current_player = BLACK
    /\ last.res.terminal
    /\ last.res.val = 0 - INFINITY

\* C9: list_solve_point returns exactly the candidates of the first
\* non-empty tier in the order (1) own immediate win, (2) block the
\* opponent's win, (3) make an open four, (4) block the opponent's open
\* four; when an own win and a block both exist it returns the winning
\* points only; it returns None exactly when all four tiers are empty.
C9_PriorityOrdering ==
    last.op = "list_solve_point"
      => LET T == Tiers(board, current_player)
             nonEmpty == {i \in 1..4 : T[i] # {}}
         IN  /\ (last.res.tier = 0) <=> (nonEmpty = {})
             /\ nonEmpty # {}
                  => /\ last.res.tier = SetMin(nonEmpty)
                     /\ last.res.moves = T[SetMin(nonEmpty)]
             /\ (T[1] # {} /\ T[2] # {})
                  => /\ last.res.moves = T[1]
                     /\ last.res.moves \cap (T[2] \ T[1]) = {}

\* An own win and a different block point exist; the win was returned
C9_Witness ==
    /\ last.op = "list_solve_point"
    /\ Win5(board, current_player) # {}
    /\ Win5(board, opponent(current_player)) \ Win5(board, current_player) # {}
    /\ last.res.tier = 1
    /\ last.res.moves = Win5(board, current_player)

\* C10: when some empty cell completes four-plus-one of the current player
\* in a 5-cell window of a row, column or diagonal, winDetection returns
\* ([p], [], [], []) with p one such cell, whatever opponent threats it had
\* collected before.
C10_EarlyExit ==
    (last.op = "winDetection" /\ Win5(board, current_player) # {})
      => /\ Len(last.res.myWins) = 1
         /\ last.res.myWins[1] \in Win5(board, current_player)
         /\ last.res.theirWins = <<>>
         /\ last.res.my2mWins = <<>>
         /\ last.res.their2mWins = <<>>

\* The own win was found after an opponent win on an earlier row
C10_Witness ==
    /\ last.op = "winDetection"
    /\ last.res.done
    /\ last.res.theirWins = <<>>
    /\ \E q \in Win5(board, opponent(current_player)) :
         q + NS < last.res.myWins[1]

\* C2: when alphabeta(board, alpha, beta, d) or solve(board, sboard)
\* returns, on whichever path, every board cell and current_player equal
\* their values at the moment of the call.
C2_SearchRestores ==
    [][(last'.op \in {"alphabeta", "solve"} /\ ~last'.raised)
         => (/\ board' = board
             /\ current_player' = current_player)]_vars

\* alphabeta returned by a beta cutoff after it had played a move
C2_Witness ==
    /\ last.op = "alphabeta"
    /\ ~last.raised
    /\ last.d > 0
    /\ last.v = last.beta
    /\ ~game_end(board, current_player).terminal
    /\ list_solve_point(board, current_player).tier = 0

\* C3: when negaAB returns, on whichever path, every board cell and
\* current_player equal their values at the moment of the call; of the
\* board's fields only best_move and best_move_score may differ.
C3_NegaABRestores ==
    [][(last'.op = "negaAB" /\ ~last'.raised)
         => (/\ board' = board
             /\ current_player' = current_player
             /\ ko_recapture' = ko_recapture
             /\ liberty_of' = liberty_of)]_vars

\* negaAB returned from the forced-block branch after its leaves had
\* updated best_move_score
C3_Witness ==
    /\ last.op = "negaAB"
    /\ ~last.raised
    /\ last.d > 0
    /\ Len(winDetection(board, current_player).myWins) = 0
    /\ Len(winDetection(board, current_player).theirWins) = 1
    /\ Len(winDetection(board, current_player).their2mWins) = 0
    /\ best_move_score # 0 - 2000000

\* C11: winDetection and list_solve_point agree on the critical points: the
\* index of the first non-empty winDetection bucket is the tier chosen by
\* list_solve_point (none non-empty: None), and the points of that bucket
\* are the points list_solve_point returns; after the early exit on an own
\* win the single point is a member of list_solve_point's result.
C11_DetectorAgreement ==
    last.op = "winDetection"
      => LET w == last.res
             buckets == <<SeqRange(w.myWins), SeqRange(w.theirWins),
                          SeqRange(w.my2mWins), SeqRange(w.their2mWins)>>
             nonEmpty == {i \in 1..4 : buckets[i] # {}}
             idx == IF nonEmpty = {} THEN 0 ELSE SetMin(nonEmpty)
             lsp == list_solve_point(board, current_player)
         IN  /\ idx = lsp.tier
             /\ idx = 1 => (Len(w.myWins) = 1 /\ w.myWins[1] \in lsp.moves)
             /\ idx > 1 => buckets[idx] = lsp.moves

\* ------------------------------------------------------------------ the game tree
\* A run of five stones of colour c passes through p
FiveThrough(b, c, p) ==
    \E st \in Steps, j \in 0..4 : RunAt(b, c, p - j * st, st, 5)

\* On a board without five in a row: the player me gets five in a row
\* first, whatever the opponent replies
RECURSIVE ForcedFive(_, _, _)
ForcedFive(b, me, toMove) ==
    IF toMove = me
    THEN \E m \in get_empty_points(b) :
            LET b1 == [b EXCEPT ![m] = me]
            IN  FiveThrough(b1, me, m) \/ ForcedFive(b1, me, opponent(me))
    ELSE /\ get_empty_points(b) # {}
         /\ \A m \in get_empty_points(b) :
               LET b1 == [b EXCEPT ![m] = opponent(me)]
               IN  /\ ~FiveThrough(b1, opponent(me), m)
                   /\ ForcedFive(b1, me, me)

\* The same within a number of plies
RECURSIVE ForcedFiveWithin(_, _, _, _)
ForcedFiveWithin(b, me, toMove, plies) ==
    IF plies = 0 THEN FALSE
    ELSE IF toMove = me
    THEN \E m \in get_empty_points(b) :
            LET b1 == [b EXCEPT ![m] = me]
            IN  \/ FiveThrough(b1, me, m)
                \/ ForcedFiveWithin(b1, me, opponent(me), plies - 1)
    ELSE /\ get_empty_points(b) # {}
         /\ \A m \in get_empty_points(b) :
               LET b1 == [b EXCEPT ![m] = opponent(me)]
               IN  /\ ~FiveThrough(b1, opponent(me), m)
                   /\ ForcedFiveWithin(b1, me, me, plies - 1)

\* C12: whenever solve returns (True, p) on a non-terminal board, p is an
\* empty cell and, once the player to move has played p, that player gets
\* five in a row against every sequence of opponent replies.
C12_ForcedWinSound ==
    (last.op = "solve" /\ last.tag = "Move")
      => /\ last.flag
         /\ last.point \in OnBoard
         /\ board[last.point] = EMPTY
         /\ LET b1 == [board EXCEPT ![last.point] = current_player]
            IN  \/ FiveThrough(b1, current_player, last.point)
                \/ ForcedFive(b1, current_player, opponent(current_player))

\* C13: on every non-terminal board where the player to move has a move
\* that wins against every reply within START_DEPTH plies below it, solve
\* returns (True, p), also when the first critical point of
\* list_solve_point is not a winning move.
C13_ForcedWinComplete ==
    (/\ last.op = "solve"
     /\ ~last.raised
     /\ last.tag # "First"
     /\ ForcedFiveWithin(board, current_player, current_player, START_DEPTH + 1))
      => (last.tag = "Move" /\ last.flag)

\* C14: whenever solve, called on a non-terminal board with an empty cell,
\* returns "NoMove", the recorded best_move is an empty on-board cell, never
\* None, and best_move_score is the largest search value among the
\* candidate moves.
C14_FallbackMove ==
    (last.op = "solve" /\ last.tag = "NoMove")
      => /\ best_move # NonePoint
         /\ best_move \in OnBoard
         /\ board[best_move] = EMPTY
         /\ LET vals(m) ==
                  {0 - r.v :
                     r \in alphabeta([board EXCEPT ![m] = current_player],
                                     opponent(current_player),
                                     0 - INFINITY, INFINITY, START_DEPTH)}
            IN  /\ best_move_score \in vals(best_move)
                /\ \A m \in get_empty_points(board) :
                     \E v \in vals(m) : v <= best_move_score

\* ------------------------------------------------------------------ Go rules
NoCache == [p \in Points |-> NULLPOINT]

\* The block of the stone at p has an adjacent empty cell
BlockHasLiberty(b, p) ==
    \E q \in _block_of(b, p) : \E n \in SeqRange(neighbors(q)) : b[n] = EMPTY

\* C15: the accept/reject result of is_legal and play_move and the stones
\* play_move captures are those computed by the same rules with the
\* liberty cache ignored, whatever the cache holds.
C15_CacheHarmless ==
    [][/\ last'.op = "play_move"
            => LET ref == play_move(board, NoCache, ko_recapture,
                                    current_player, last'.point, last'.color)
               IN  last'.ok = ref.ok /\ board' = ref.board
       /\ last'.op = "is_legal"
            => last'.ok = is_legal(board, NoCache, ko_recapture,
                                   last'.point, last'.color).legal]_vars

C17_RejectedGoPlay ==
    [][(last'.op = "play_move" /\ ~last'.ok)
         => /\ board' = board
            /\ current_player' = current_player
            /\ ko_recapture' = ko_recapture
            /\ \/ board[last'.point] # EMPTY
               \/ last'.point = ko_recapture
               \/ \A n \in SeqRange(neighbors(last'.point)) :
                     board[n] # EMPTY]_vars

\* A suicide has been rejected: the point is empty and not the ko point
C17_Witness ==
    /\ last.op = "play_move"
    /\ ~last.ok
    /\ last.point \in OnBoard
    /\ board[last.point] = EMPTY
    /\ last.point # ko_recapture

\* C18: after any sequence of Go is_legal and play_move calls from the
\* empty board, every stone belongs to a block with an adjacent empty cell.
C18_NoDeadBlock ==
    \A p \in Stones(board) : BlockHasLiberty(board, p)


\* The board holds nothing but three stones of colour c from s in steps of
\* st, and the cell before and the cell after them are on the board
IsOpenThree(b, c, s, st) ==
    /\ Stones(b) = {s, s + st, s + 2 * st}
    /\ \A k \in 0..2 : b[s + k * st] = c
    /\ (s - st) \in OnBoard
    /\ (s + 3 * st) \in OnBoard

\* C19 as stated: on a board holding only three contiguous stones of the
\* player to move with both flanking cells empty, wherever on the line,
\* list_solve_point returns the make-open-four tier and both flanking
\* cells are in it.
C19_BothFlanks ==
    last.op = "list_solve_point"
      => \A s \in OnBoard, st \in Steps :
            IsOpenThree(board, current_player, s, st)
              => /\ last.res.tier = 3
                 /\ {s - st, s + 3 * st} \subseteq last.res.moves

\* C19: on such a board list_solve_point returns exactly the flanking
\* cells that have a further on-board cell beyond them on the line (the
\* cells that make a four with both ends open), as the make-open-four
\* tier, and None when neither flank has one.
C19_OpenFlanks ==
    last.op = "list_solve_point"
      => \A s \in OnBoard, st \in Steps :
            IsOpenThree(board, current_player, s, st)
              => LET open == {f \in {s - st, s + 3 * st} :
                                 \/ f = s - st /\ (s - 2 * st) \in OnBoard
                                 \/ f = s + 3 * st /\ (s + 4 * st) \in OnBoard}
                 IN  /\ last.res.moves = open
                     /\ last.res.tier = (IF open = {} THEN 0 ELSE 3)

\* Three stones one cell from the edge: only the far flank is returned
C19_Witness ==
    /\ last.op = "list_solve_point"
    /\ \E s \in OnBoard, st \in Steps :
         /\ IsOpenThree(board, current_player, s, st)
         /\ (s - 2 * st) \notin OnBoard
         /\ last.res.tier = 3
         /\ last.res.moves = {s + 3 * st}

\* C20 as stated: when some empty cell completes four-plus-one of the
\* player to move in a 5-cell window, list_solve_point returns exactly
\* those cells, and playing any of them with that colour makes
\* check_game_end_gomoku report (True, that colour).
C20_ImmediateWin ==
    (last.op = "list_solve_point" /\ Win5(board, current_player) # {})
      => /\ last.res.tier = 1
         /\ last.res.moves = Win5(board, current_player)
         /\ \A p \in last.res.moves :
              LET r == play_move_gomoku(board, current_player, p, current_player)
                  e == check_game_end_gomoku(r.board)
              IN  r.ok /\ ~e.raised /\ e.ended /\ e.winner = current_player

\* C20: list_solve_point returns exactly the completing cells, and after
\* playing any of them check_game_end_gomoku reports game-end; the winner
\* reported is the player's colour unless White already had a run of five
\* or more, and then it is White.
C20_ImmediateWinWhiteFirst ==
    (last.op = "list_solve_point" /\ Win5(board, current_player) # {})
      => /\ last.res.tier = 1
         /\ last.res.moves = Win5(board, current_player)
         /\ \A p \in last.res.moves :
              LET r == play_move_gomoku(board, current_player, p, current_player)
                  e == check_game_end_gomoku(r.board)
              IN  /\ r.ok /\ ~e.raised /\ e.ended
                  /\ e.winner = (IF HasRun(board, WHITE, 5) THEN WHITE
                                 ELSE current_player)

\* Black completes a five on a board where White already has one
C20_Witness ==
    /\ last.op = "list_solve_point"
    /\ current_player = BLACK
    /\ HasRun(board, WHITE, 5)
    /\ last.res.tier = 1
    /\ last.res.moves # {}
    /\ last.res.moves = Win5(board, BLACK)


\* C21: when negaAB returns -1 because winDetection lists more than one
\* immediate win of the opponent, no single move of the player to move
\* keeps the opponent from completing five in a row on the next turn; when
\* it lists exactly one, the move negaAB returns is that blocking point.
C21_MultiThreatLoss ==
    (/\ last.op = "negaAB"
     /\ ~last.raised
     /\ last.d > 0
     /\ get_empty_points(board) # {})
      => LET w == winDetection(board, current_player)
             opp == opponent(current_player)
         IN  /\ (Len(w.myWins) = 0 /\ Len(w.theirWins) > 1)
                  => /\ last.v = 0 - 1
                     /\ \A p \in get_empty_points(board) :
                          Win5([board EXCEPT ![p] = current_player], opp) # {}
             /\ (Len(w.myWins) = 0 /\ Len(w.theirWins) = 1)
                  => last.move = w.theirWins[1]


\* C22: a call to list_solve_point, get_pattern_moves or winDetection
\* leaves every cell, current_player, the ko point, the liberty cache,
\* best_move and best_move_score as they were.
C22_DetectorReadOnly ==
    [][(last'.op \in {"list_solve_point", "get_pattern_moves", "winDetection"})
         => (/\ board' = board
             /\ current_player' = current_player
             /\ ko_recapture' = ko_recapture
             /\ liberty_of' = liberty_of
             /\ best_move' = best_move
             /\ best_move_score' = best_move_score)]_vars

\* get_pattern_moves found a block that only its own table knows: the
\* cell before an open three that starts one cell from the edge
C22_Witness ==
    /\ last.op = "get_pattern_moves"
    /\ last.res.tier = 3
    /\ last.res.moves # {}
    /\ list_solve_point(board, current_player).tier = 4
    /\ last.res.moves # list_solve_point(board, current_player).moves


\* C23: in every state reached from the reset board by plays made with the
\* colour of the player to move, rejected plays, and undos of the most
\* recent play not yet undone, the number of Black stones minus the number
\* of White stones is 0 or 1, and current_player is BLACK exactly when the
\* two numbers are equal.
C23_TurnAlternation ==
    LET nb == Cardinality({p \in Points : board[p] = BLACK})
        nw == Cardinality({p \in Points : board[p] = WHITE})
    IN  /\ nb - nw \in {0, 1}
        /\ (current_player = BLACK) <=> (nb = nw)

\* Black's second stone has just been taken back
C23_Witness ==
    /\ last.op = "undo"
    /\ Cardinality({p \in Points : board[p] = BLACK}) = 1
    /\ Cardinality({p \in Points : board[p] = WHITE}) = 1
    /\ current_player = BLACK


\* C24: every point list_solve_point returns is an on-board cell that is
\* EMPTY, so playing it with the colour of the player to move, as the
\* forced branch of alphabeta and solve does, is accepted, and the undo
\* that follows gives back the board and the player of before.
C24_SolvePointsEmpty ==
    last.op = "list_solve_point"
      => \A p \in last.res.moves :
            LET r == play_move_gomoku(board, current_player, p, current_player)
                u == undo(r.board, r.current_player, p)
            IN  /\ p \in OnBoard
                /\ board[p] = EMPTY
                /\ r.ok
                /\ u.board = board
                /\ u.current_player = current_player

\* Two blocks of an open three were returned, one of them next to the edge
C24_Witness ==
    /\ last.op = "list_solve_point"
    /\ last.res.tier = 4
    /\ Cardinality(last.res.moves) = 2
    /\ \E p \in last.res.moves : \E i \in 1..4 : board[_neighbors(p)[i]] = BORDER


\* C26: point_check_game_end_gomoku(p) on a stone p never violates the
\* assertion count <= 5, also when p lies inside a run of 6 or more of its
\* colour, and check_game_end_gomoku never violates it on any board.
C26_AssertionHolds ==
    /\ last.op = "point_check_game_end_gomoku" => last.res # AssertionError
    /\ last.op = "check_game_end_gomoku" => ~last.res.raised


\* C27: in every state reached by Go is_legal and play_move calls,
\* is_legal(p, c) returns True exactly when play_move(p, c) called in that
\* same state would be accepted, and is_legal leaves every cell,
\* current_player and the ko point unchanged.
C27_LegalAgreesWithPlay ==
    [][last'.op = "is_legal"
         => (/\ last'.ok <=> play_move(board, liberty_of, ko_recapture,
                                       current_player, last'.point,
                                       last'.color).ok
             /\ board' = board
             /\ current_player' = current_player
             /\ ko_recapture' = ko_recapture)]_vars

\* A suicide has been refused by is_legal on a board where a stone was
\* captured before
C27_Witness ==
    /\ last.op = "is_legal"
    /\ ~last.ok
    /\ last.point # PASS
    /\ board[last.point] = EMPTY
    /\ last.point # ko_recapture
    /\ \E p \in GoRegion : board[p] = last.color


\* The recursion of alphabeta with the two "if result >= beta: return beta"
\* tests taken out: the set of values it can return, one for each choice of
\* the first critical point
RECURSIVE negamax_no_cutoff(_, _, _, _, _)
RECURSIVE negamax_no_cutoff_loop(_, _, _, _, _, _, _)

negamax_no_cutoff(b, cp, alpha, beta, d) ==
    LET result == game_end(b, cp)
    IN  IF result.terminal THEN {result.val}
        ELSE LET solvePoint == list_solve_point(b, cp)
             IN  IF solvePoint.tier # 0
                 THEN UNION {
                        {IF 0 - v > alpha THEN 0 - v ELSE alpha :
                            v \in negamax_no_cutoff([b EXCEPT ![m] = cp],
                                                    opponent(cp),
                                                    0 - beta, 0 - alpha, d - 1)} :
                        m \in first_candidates(solvePoint)}
                 ELSE IF d <= 0 THEN {get_heuristic_score(b, cp)}
                 ELSE negamax_no_cutoff_loop(b, cp, alpha, beta, d,
                                             generate_legal_moves_gomoku(b), 1)

negamax_no_cutoff_loop(b, cp, alpha, beta, d, moves, i) ==
    IF i > Len(moves) THEN {alpha}
    ELSE UNION {
           negamax_no_cutoff_loop(b, cp, IF 0 - v > alpha THEN 0 - v ELSE alpha,
                                  beta, d, moves, i + 1) :
           v \in negamax_no_cutoff([b EXCEPT ![moves[i]] = cp], opponent(cp),
                                   0 - beta, 0 - alpha, d - 1)}

\* The values alphabeta can return on the board as it is
alphabeta_values(alpha, beta, d) ==
    {r.v : r \in {o \in alphabeta(board, current_player, alpha, beta, d) :
                     ~o.raised}}

\* C28: on a non-terminal board alphabeta called with the window
\* (-INFINITY, +INFINITY) returns the value of the same recursion without
\* the beta cutoff; and with any window alpha < beta the value returned by a
\* call that neither found the board terminal nor stopped at the depth
\* cutoff lies in [alpha, beta].
C28_PruningKeepsValue ==
    (/\ last.op = "alphabeta"
     /\ ~last.raised
     /\ ~game_end(board, current_player).terminal)
      => /\ (last.alpha = 0 - INFINITY /\ last.beta = INFINITY)
               => /\ last.v \in negamax_no_cutoff(board, current_player,
                                                  last.alpha, last.beta, last.d)
                  /\ alphabeta_values(last.alpha, last.beta, last.d)
                       = negamax_no_cutoff(board, current_player,
                                           last.alpha, last.beta, last.d)
         /\ (list_solve_point(board, current_player).tier # 0 \/ last.d > 0)
               => (last.alpha <= last.v /\ last.v <= last.beta)

\* A beta cutoff was taken below the root: after the first moves of the
\* loop had raised alpha above -INFINITY, the reply to a later move came
\* back as the beta of its own window
C28_Witness ==
    /\ last.op = "alphabeta"
    /\ ~last.raised
    /\ ~game_end(board, current_player).terminal
    /\ last.alpha = 0 - INFINITY
    /\ last.beta = INFINITY
    /\ last.d = START_DEPTH
    /\ list_solve_point(board, current_player).tier = 0
    /\ last.v \notin {0 - INFINITY, INFINITY}
    /\ LET moves == generate_legal_moves_gomoku(board)
           opp == opponent(current_player)
       IN  \E i \in 2..Len(moves) :
             \E o \in alphabeta_loop(board, current_player, 0 - INFINITY,
                                     INFINITY, last.d,
                                     SubSeq(moves, 1, i - 1), 1) :
                /\ ~o.raised
                /\ o.v > 0 - INFINITY
                /\ ~game_end([board EXCEPT ![moves[i]] = current_player],
                             opp).terminal
                /\ \E c \in alphabeta([board EXCEPT ![moves[i]] = current_player],
                                      opp, 0 - INFINITY, 0 - o.v, last.d - 1) :
                      ~c.raised /\ c.v = 0 - o.v


\* A frame of alphabeta that has called itself
Suspended(k) == k < Len(frames) \/ frames[k].pc \in {"forced", "body"}

\* The frames that have played their move and not yet taken it back
Placed == {k \in 1..Len(frames) : frames[k].pc \in {"forced", "body"}}

\* Each frame that is at its recursive call has one stone on the board, so
\* every call is entered on a board with fewer empty cells than its
\* caller's, and there are never more frames than the empty cells of the
\* outermost call, plus one
FewerEmptyCells ==
    frames # <<>>
      => /\ Cardinality(get_empty_points(board)) + Cardinality(Placed)
              = last.empties
         /\ \A k \in 1..(Len(frames) - 1) : k \in Placed
         /\ Len(frames) <= last.empties + 1

\* An alphabeta frame enters the move loop only with d > 0; with d <= 0 the
\* one recursive call it makes is the one of the critical-point branch
CutoffUnlessCritical ==
    \A k \in 1..Len(frames) :
        (frames[k].fn = "alphabeta" /\ frames[k].d <= 0)
          => /\ frames[k].pc \in {"start", "forced"}
             /\ Suspended(k) => frames[k].pc = "forced"

\* An upper bound on the steps a call takes from its first line on a board
\* with e empty cells: entering, then for each empty cell the call, the
\* callee's steps and the rest of the loop body, then the return
RECURSIVE StepsBound(_)
StepsBound(e) == IF e <= 0 THEN 1 ELSE 2 + e * (2 + StepsBound(e - 1))

\* The steps the k-th frame can still take itself or cause by calls it has
\* not made yet; the board it was entered on had k - 1 cells fewer empty
\* than the board of the outermost call
FrameSteps(fr, l, k) ==
    LET e == l.empties - (k - 1)
        r == Len(fr[k].moves)
    IN  IF fr[k].pc = "start" THEN StepsBound(e)
        ELSE IF fr[k].pc = "forced" THEN 1
        ELSE IF fr[k].pc = "loop" THEN 1 + r * (2 + StepsBound(e - 1))
        ELSE 2 + r * (2 + StepsBound(e - 1))

RECURSIVE RemainingSteps(_, _, _)
RemainingSteps(fr, l, k) ==
    IF k > Len(fr) THEN 0 ELSE FrameSteps(fr, l, k) + RemainingSteps(fr, l, k + 1)

\* The running frame has a next step
CanStep ==
    frames # <<>>
      => LET fn == frames[Len(frames)].fn
         IN  (IF fn = "alphabeta"
              THEN alphabeta_step(board, current_player, best_move,
                                  best_move_score, frames, last)
              ELSE IF fn = "solve"
              THEN solve_step(board, current_player, best_move,
                              best_move_score, frames, last)
              ELSE negaAB_step(board, current_player, best_move,
                               best_move_score, frames, last)) # {}

\* C25: alphabeta (called with any depth, also d <= 0), solve and negaAB
\* (d >= 0) terminate: while a call is in progress its running frame has a
\* next step and every step lowers a natural number, the steps that can
\* remain; each recursive call is made on a board with strictly fewer empty
\* cells, so the frames are at most the empty cells plus one; below depth 0
\* alphabeta goes on only along critical points.
C25_Terminates ==
    /\ [](FewerEmptyCells /\ CutoffUnlessCritical /\ CanStep)
    /\ [][frames # <<>>
            => /\ RemainingSteps(frames', last', 1) >= 0
               /\ RemainingSteps(frames', last', 1)
                     < RemainingSteps(frames, last, 1)]_vars

\* A critical point is being followed two plies below depth 0
C25_Witness ==
    /\ frames # <<>>
    /\ frames[Len(frames)].fn = "alphabeta"
    /\ frames[Len(frames)].d < 0 - 1
    /\ frames[Len(frames)].pc = "forced"

\* The step-by-step run and the recursive definition agree on the value
StepsAgree ==
    (last.op = "done" /\ ~last.raised)
      => /\ last.fn = "alphabeta"
              => last.v \in {r.v : r \in alphabeta(board, current_player,
                                                   last.alpha, last.beta, last.d)}
         /\ last.fn = "negaAB"
              => last.v = negaAB(board, current_player, last.alpha, last.beta,
                                 last.d, NonePoint, NonePoint,
                                 0 - 2000000).v
         /\ last.fn = "solve"
              => last.tag \in {r.tag : r \in solve(board, current_player,
                                                   NonePoint, 0 - 2000000)}


====
